---- MODULE Spec2Model ----
(***************************************************************************)
(* A model of the skyros swarm link: the binary packet codec               *)
(* (lib/packets.py, lib/packet_codec.py), the serial link framer and send  *)
(* path (link.py) and the presence table of the Drone facade (drone.py).   *)
(*                                                                         *)
(* Bytes are the integers 0..255 and byte strings are sequences of them.   *)
(* A Python float is modelled by the integer m that stands for the double  *)
(* m * 2^-FloatFrac; times are integers in tenths of a second.             *)
(***************************************************************************)
EXTENDS Integers, Sequences, FiniteSets, TLC

(***************************************************************************)
(* lib/packets.py: constants of the wire format                            *)
(***************************************************************************)
PACKET_PREAMBLE == 43605
MAX_PAYLOAD_SIZE == 128
HEADER_SIZE == 5

TELEMETRY == 1
COMMAND == 2
STATUS == 3
SENSOR_DATA == 4
CONFIG == 5
BULK_DATA == 6
PING == 7
ACK == 8
CUSTOM_MESSAGE == 9

PacketType == TELEMETRY..CUSTOM_MESSAGE

TELEMETRY_SIZE == 27
COMMAND_SIZE == 6
STATUS_SIZE == 8
SENSOR_SIZE == 15
CONFIG_SIZE == 5
PING_SIZE == 6
ACK_SIZE == 6
CUSTOM_MESSAGE_SIZE == 128

\* Python's None
None == [kind |-> "None"]

\* a PacketHeader object
PacketHeader(preamble, payload_size, packet_type, network_id) ==
    [preamble |-> preamble, payload_size |-> payload_size,
     packet_type |-> packet_type, network_id |-> network_id]

(***************************************************************************)
(* Byte strings and struct.pack / struct.unpack (little-endian)            *)
(***************************************************************************)
\* data[a:b] of Python, 0-based, for 0 <= a
Slice(s, a, b) ==
    LET hi == IF b > Len(s) THEN Len(s) ELSE b
    IN  IF a >= hi THEN << >> ELSE SubSeq(s, a + 1, hi)

\* bitwise exclusive or of two naturals, bit by bit
RECURSIVE XorBits(_, _)
XorBits(a, b) ==
    IF a = 0 THEN b
    ELSE IF b = 0 THEN a
    ELSE ((a + b) % 2) + 2 * XorBits(a \div 2, b \div 2)

\* the exclusive or of two bytes, tabulated
XorByte == [a \in 0..255 |-> [b \in 0..255 |-> XorBits(a, b)]]

\* a ^ b for 16-bit values
BitXor(a, b) ==
    256 * XorByte[a \div 256][b \div 256] + XorByte[a % 256][b % 256]

\* struct "<H"
PackU16(v) == << v % 256, v \div 256 >>
UnpackU16(b) == b[1] + 256 * b[2]

\* struct "<I"
PackU32(v) == << v % 256, (v \div 256) % 256, (v \div 65536) % 256, v \div 16777216 >>
UnpackU32(b) == b[1] + 256 * b[2] + 65536 * b[3] + 16777216 * b[4]

\* the double m * 2^-FloatFrac
FloatFrac == 26

\* float("nan")
NaN == 2147483647

IsNaN(v) == v = NaN

RECURSIVE Log2(_)
Log2(n) == IF n < 2 THEN 0 ELSE 1 + Log2(n \div 2)

\* the conversion cuts the significand off instead of rounding it
RoundF32_trunc(a) ==
    LET k == Log2(a)
    IN  IF k <= 23
        THEN [sig |-> a * 2 ^ (23 - k), exp |-> k - FloatFrac]
        ELSE [sig |-> a \div 2 ^ (k - 23), exp |-> k - FloatFrac]

\* The 24-bit significand and the binary exponent of the float32 nearest to the
\* double with magnitude a * 2^-FloatFrac (a > 0), rounding half to even.
RoundF32(a) ==
    LET k == Log2(a)
    IN  IF k <= 23
        THEN [sig |-> a * 2 ^ (23 - k), exp |-> k - FloatFrac]
        ELSE LET s == k - 23
                 q == a \div 2 ^ s
                 r == a % 2 ^ s
                 half == 2 ^ (s - 1)
                 up == r > half \/ (r = half /\ q % 2 = 1)
                 q1 == IF up THEN q + 1 ELSE q
             IN  IF q1 = 16777216
                 THEN [sig |-> 8388608, exp |-> k + 1 - FloatFrac]
                 ELSE [sig |-> q1, exp |-> k - FloatFrac]

\* struct "<f": a double is converted to IEEE-754 binary32
PackF32(m) ==
    IF m = 0 THEN << 0, 0, 0, 0 >>
    ELSE IF IsNaN(m) THEN << 0, 0, 192, 127 >>
    ELSE LET a == IF m < 0 THEN -m ELSE m
             f == RoundF32(a)
             E == f.exp + 127
             M == f.sig - 8388608
             sign == IF m < 0 THEN 1 ELSE 0
         IN  << M % 256, (M \div 256) % 256,
                (E % 2) * 128 + (M \div 65536), sign * 128 + (E \div 2) >>

UnpackF32(b) ==
    LET sign == b[4] \div 128
        E == (b[4] % 128) * 2 + (b[3] \div 128)
        M == (b[3] % 128) * 65536 + b[2] * 256 + b[1]
        sh == E - 127 - 23 + FloatFrac
        a == IF E = 0 /\ M = 0 THEN 0
             ELSE IF E = 255 /\ M # 0 THEN NaN
             ELSE IF sh >= 0 THEN (M + 8388608) * 2 ^ sh
             ELSE (M + 8388608) \div 2 ^ (-sh)
    IN  IF sign = 1 /\ ~IsNaN(a) THEN -a ELSE a

\* struct "<126s": the bytes, cut or null-padded to 126
Pack126s(data) ==
    [i \in 1..126 |-> IF i <= Len(data) THEN data[i] ELSE 0]

\* struct HEADER_FORMAT "<HBBB"
PackHeader(h) ==
    PackU16(h.preamble) \o << h.payload_size, h.packet_type, h.network_id >>

UnpackHeader(b) ==
    PacketHeader(UnpackU16(SubSeq(b, 1, 2)), b[3], b[4], b[5])

(***************************************************************************)
(* lib/packet_codec.py                                                     *)
(***************************************************************************)
\* the inner loop of calculate_crc16: n rounds of shift and conditional xor
RECURSIVE CrcShift(_, _)
CrcShift(crc, n) ==
    IF n = 0 THEN crc
    ELSE CrcShift(IF crc % 2 = 1 THEN BitXor(crc \div 2, 40961) ELSE crc \div 2,
                  n - 1)

\* the outer loop of calculate_crc16 over the bytes data[lo..hi], in order,
\* starting from crc (evaluated in two halves to keep the evaluation shallow)
RECURSIVE CrcFold(_, _, _, _)
CrcFold(data, lo, hi, crc) ==
    IF lo > hi THEN crc
    ELSE IF lo = hi THEN CrcShift(BitXor(crc, data[lo]), 8)
    ELSE LET mid == (lo + hi) \div 2
             left == CrcFold(data, lo, mid, crc)
         IN  IF left >= 0 THEN CrcFold(data, mid + 1, hi, left) ELSE left

\* the loop stops one byte early
calculate_crc16_short(data) ==
    CrcFold(data, 1, Len(data) - 3, 65535) % 65536

calculate_crc16(data) ==
    CrcFold(data, 1, Len(data) - 2, 65535) % 65536

\* the typed part of a packet: the struct.pack of its fields
PackFields(p) ==
    CASE p.kind = "TelemetryPacket" ->
            << p.drone_id >> \o PackF32(p.x) \o PackF32(p.y) \o PackF32(p.z)
                \o PackF32(p.vx) \o PackF32(p.vy) \o PackF32(p.vz)
      [] p.kind = "CommandPacket" ->
            << p.command_id, p.target_id >> \o PackU16(p.param)
      [] p.kind = "StatusPacket" ->
            << p.drone_id, p.status_code >> \o PackU16(p.battery_mv)
                \o PackU16(p.error_flags)
      [] p.kind = "SensorPacket" ->
            << p.sensor_id >> \o PackF32(p.value1) \o PackF32(p.value2)
                \o PackF32(p.value3)
      [] p.kind = "ConfigPacket" ->
            << p.network_id, p.wifi_channel, p.tx_power >>
      [] p.kind = "PingPacket" -> PackU32(p.timestamp)
      [] p.kind = "AckPacket" ->
            << p.ack_type, p.ack_id >> \o PackU16(p.status)
      [] p.kind = "CustomMessagePacket" -> Pack126s(p.custom_data)

pack_packet(p) ==
    LET header == PackHeader(p.header)
        data == PackFields(p)
        crc == calculate_crc16(header \o data \o << 0, 0 >>)
    IN  header \o data \o PackU16(crc)

\* the bytes send_packet writes for p: raw bytes as they are, a typed packet
\* packed
Encoded(p) == IF p.kind = "bytes" THEN p.data ELSE pack_packet(p)

\* the CRC test of unpack_packet
CrcOk(header, payload) ==
    LET received_crc == UnpackU16(Slice(payload, Len(payload) - 2, Len(payload)))
        full_data == PackHeader(header) \o Slice(payload, 0, Len(payload) - 2)
                        \o << 0, 0 >>
    IN  calculate_crc16(full_data) = received_crc

\* the payload size unpack_packet demands of a typed packet
ExpectedSize(packet_type) ==
    CASE packet_type = TELEMETRY -> TELEMETRY_SIZE
      [] packet_type = COMMAND -> COMMAND_SIZE
      [] packet_type = STATUS -> STATUS_SIZE
      [] packet_type = SENSOR_DATA -> SENSOR_SIZE
      [] packet_type = CONFIG -> CONFIG_SIZE
      [] packet_type = PING -> PING_SIZE
      [] packet_type = ACK -> ACK_SIZE
      [] packet_type = CUSTOM_MESSAGE -> CUSTOM_MESSAGE_SIZE

\* the typed packet unpack_packet builds from the fields b = payload[:-2]
UnpackFields(header, b, received_crc) ==
    CASE header.packet_type = TELEMETRY ->
            [kind |-> "TelemetryPacket", header |-> header, drone_id |-> b[1],
             x |-> UnpackF32(SubSeq(b, 2, 5)), y |-> UnpackF32(SubSeq(b, 6, 9)),
             z |-> UnpackF32(SubSeq(b, 10, 13)), vx |-> UnpackF32(SubSeq(b, 14, 17)),
             vy |-> UnpackF32(SubSeq(b, 18, 21)), vz |-> UnpackF32(SubSeq(b, 22, 25)),
             crc |-> received_crc]
      [] header.packet_type = COMMAND ->
            [kind |-> "CommandPacket", header |-> header, command_id |-> b[1],
             target_id |-> b[2], param |-> UnpackU16(SubSeq(b, 3, 4)),
             crc |-> received_crc]
      [] header.packet_type = STATUS ->
            [kind |-> "StatusPacket", header |-> header, drone_id |-> b[1],
             status_code |-> b[2], battery_mv |-> UnpackU16(SubSeq(b, 3, 4)),
             error_flags |-> UnpackU16(SubSeq(b, 5, 6)), crc |-> received_crc]
      [] header.packet_type = SENSOR_DATA ->
            [kind |-> "SensorPacket", header |-> header, sensor_id |-> b[1],
             value1 |-> UnpackF32(SubSeq(b, 2, 5)),
             value2 |-> UnpackF32(SubSeq(b, 6, 9)),
             value3 |-> UnpackF32(SubSeq(b, 10, 13)), crc |-> received_crc]
      [] header.packet_type = CONFIG ->
            [kind |-> "ConfigPacket", header |-> header, network_id |-> b[1],
             wifi_channel |-> b[2], tx_power |-> b[3], crc |-> received_crc]
      [] header.packet_type = PING ->
            [kind |-> "PingPacket", header |-> header,
             timestamp |-> UnpackU32(b), crc |-> received_crc]
      [] header.packet_type = ACK ->
            [kind |-> "AckPacket", header |-> header, ack_type |-> b[1],
             ack_id |-> b[2], status |-> UnpackU16(SubSeq(b, 3, 4)),
             crc |-> received_crc]
      [] header.packet_type = CUSTOM_MESSAGE ->
            [kind |-> "CustomMessagePacket", header |-> header,
             custom_data |-> b, crc |-> received_crc]

\* a packet of the wrong size is handed on as raw bytes
unpack_packet_raw(header, payload) ==
    IF Len(payload) < 2 THEN None
    ELSE IF ~CrcOk(header, payload) THEN None
    ELSE [kind |-> "bytes", data |-> SubSeq(payload, 1, Len(payload) - 2)]

\* unpack_packet(header, payload): a packet, raw bytes (bulk data) or None
unpack_packet(header, payload) ==
    IF Len(payload) < 2 THEN None
    ELSE IF ~CrcOk(header, payload) THEN None
    ELSE IF header.packet_type = BULK_DATA
         THEN [kind |-> "bytes", data |-> Slice(payload, 0, Len(payload) - 2)]
    ELSE IF header.packet_type \notin PacketType THEN None
    ELSE IF header.payload_size # ExpectedSize(header.packet_type) THEN None
    \* struct.error: the fields do not have the size of the format
    ELSE IF Len(payload) # ExpectedSize(header.packet_type) THEN None
    ELSE UnpackFields(header, Slice(payload, 0, Len(payload) - 2),
                      UnpackU16(Slice(payload, Len(payload) - 2, Len(payload))))

(***************************************************************************)
(* State                                                                   *)
(***************************************************************************)
VARIABLES
    \* the packet codec under test
    packet,         \* the packet object given to pack_packet
    wire,           \* the bytes of the packet on the wire
    unpacked,       \* what unpack_packet returned for the wire bytes
    phase,          \* "new", "packed", "corrupted", "unpacked"
    \* ESP32Link
    serial_in,      \* bytes the transport has not yet handed to the reader
    rx_buffer,      \* ESP32Link.rx_buffer
    delivered,      \* the packets given to _handle_received_packet, in order
    stats,          \* ESP32Link.stats.uart
    serial_out,     \* what was written to the serial port: [by, byte] records
    sent_by_reader, \* the send_packet calls the reader thread made, in order
    stream,         \* the parts the incoming byte stream was built from
    \* ESP32Link.send_packet and its callers
    senders,        \* per calling thread: where it is in send_packet
    send_lock,      \* ESP32Link._lock: its holder, or "free"
    is_open,        \* serial_port.is_open
    \* Drone: the presence table
    other_drones,   \* Drone._other_drones: drone_id -> DroneInfo
    now,            \* time.time(), in tenths of a second
    expiry_timeout, \* Drone._drone_expiry_timeout, in tenths of a second
    sweep,          \* the cleanup timer thread inside _cleanup_expired_drones
    other_drones_lock, \* Drone._other_drones_lock: its holder, or "free"
    ev,             \* the operation that was completed last, and the table before it
    removed,        \* ids the sweep removed and no Telemetry has announced since
    \* Drone: the calls of the user's thread
    running,        \* Drone.running
    waiter,         \* the thread inside wait_for_drones
    unlocked_access, \* the accesses to _other_drones made without its lock
    \* Drone.navigate_with_avoidance
    nav,            \* the thread inside navigate_with_avoidance
    snapshot,       \* the copy of _other_drones the loop took, as seen through it
    alias,          \* ids whose entry in the copy is the table's own object
    previous_velocity, \* avoidance._previous_velocity
    law,            \* the last call of get_avoidance_vector: inputs and output
    \* Drone and ESP32Link: configuration, background threads, shutdown
    timeout_arg,    \* the argument of the last set_drone_expiry_timeout call, if any
    link_running,   \* ESP32Link.running
    telemetry_timer, \* the chain of _start_telemetry_timer callbacks
    cleanup_timer,  \* the chain of _start_cleanup_timer callbacks
    stopping,       \* how far Drone.stop() has come
    broadcast,      \* the last run of _broadcast_telemetry
    reader,         \* the thread running ESP32Link._receive_thread
    \* Drone and ESP32Link: start() and stop() called again and again
    user,           \* the user's thread: the call it is in, and the calls made
    timers,         \* per periodic task: every chain of callbacks that was begun,
                    \* and the chain whose Timer the drone's attribute refers to
    rx_threads,     \* every reader thread that was created, and ESP32Link._rx_thread
    \* Drone and ESP32Link: the locks
    lockers,        \* per thread: the lock operations of what it runs, how far
                    \* it has come, and the locks it holds
    \* ESP32Link: configuration
    link_network_id, \* ESP32Link.network_id
    \* Drone._call_service_with_retries
    retry           \* the call: its arguments, the loop variable, what it did

codecVars == << packet, wire, unpacked, phase >>
linkVars ==
    << serial_in, rx_buffer, delivered, stats, serial_out, sent_by_reader, stream >>
sendVars == << senders, send_lock, is_open >>
droneVars == << other_drones, now, expiry_timeout, sweep, other_drones_lock, ev, removed >>
waitVars == << running, waiter, unlocked_access >>
snapVars == << snapshot, alias >>
navVars == << nav, previous_velocity, law >>
startVars == << user, timers, rx_threads >>
sysVars == << startVars, lockers, link_network_id, retry >>
lifeVars ==
    << timeout_arg, link_running, telemetry_timer, cleanup_timer, stopping,
       broadcast, reader, sysVars >>
callVars == << waitVars, snapVars, navVars, lifeVars >>
vars == << codecVars, linkVars, sendVars, droneVars, callVars >>

(***************************************************************************)
(* lib/statistics.py                                                       *)
(***************************************************************************)
\* InterfaceStats.__init__
InterfaceStats ==
    [packets_sent |-> 0, packets_received |-> 0, packets_corrupted |-> 0,
     bytes_sent |-> 0, bytes_received |-> 0,
     packets_sent_by_type |-> [t \in PacketType |-> 0],
     packets_received_by_type |-> [t \in PacketType |-> 0],
     bytes_sent_by_type |-> [t \in PacketType |-> 0],
     bytes_received_by_type |-> [t \in PacketType |-> 0]]

\* the parts of the state a run does not use
CodecIdle ==
    /\ packet = None
    /\ wire = << >>
    /\ unpacked = None
    /\ phase = "idle"

LinkIdle ==
    /\ rx_buffer = << >>
    /\ delivered = << >>
    /\ stats = InterfaceStats
    /\ serial_out = << >>
    /\ sent_by_reader = << >>

\* the threads that call send_packet: a user thread, the telemetry timer thread
\* and the reader thread (its automatic Ack)
SendThreads == {"user", "telemetry", "rx"}

\* a thread that has not called send_packet. effect is what the call has added
\* to the send counters so far.
NoEffect == [packets_sent |-> 0, bytes_sent |-> 0, by_type |-> 0, bytes_by_type |-> 0]

IdleSender ==
    [pc |-> "idle", packet |-> None, data |-> << >>, total_size |-> 0,
     packet_type |-> 0, written |-> 0, bytes_written |-> 0, attempts |-> 0,
     accepted |-> FALSE, ret |-> FALSE, effect |-> NoEffect, calls |-> 0]

SendIdle ==
    /\ senders = [t \in SendThreads |-> IdleSender]
    /\ send_lock = "free"
    /\ is_open = TRUE

\* Drone.__init__: no drone is known, the expiry timeout is 5.0 s
NoDrones == [k \in {} |-> None]

DefaultExpiryTimeout == 50

IdleSweep ==
    [pc |-> "idle", current_time |-> 0, todo |-> << >>, expired |-> << >>,
     tmo |-> NoDrones]

Event(op, pkt, time, before, tmo) ==
    [op |-> op, packet |-> pkt, time |-> time, before |-> before, tmo |-> tmo]

\* a thread that has not called wait_for_drones
IdleWaiter ==
    [pc |-> "idle", n |-> 0, timeout |-> 0, start_time |-> 0, wake |-> 0,
     elapsed |-> 0, saw |-> 0, ret |-> None, returned_at |-> 0]

\* a thread that has not called navigate_with_avoidance
IdleNav ==
    [pc |-> "idle", timeout |-> 0, perpetual |-> FALSE, time_start |-> 0,
     wake |-> 0, skipped |-> FALSE, current_pos |-> None, copied |-> NoDrones,
     arrived |-> FALSE, ret |-> None, returned_at |-> 0]

\* AbstractCollisionAvoidance.__init__
ZeroVelocity == << 0, 0, 0 >>

NoLaw == [called |-> FALSE]

\* threading.Timer(interval, callback).start() at the time now: the callback
\* runs once fire_at is reached unless cancel() comes first
Armed(fire_at) == [pc |-> "armed", fire_at |-> fire_at, fired_running |-> TRUE]

\* 1.0 / self.telemetry_rate for Drone(telemetry_rate=1.0), and the 2.0 s of the
\* cleanup timer, in tenths of a second
TelemetryPeriod == 10
CleanupPeriod == 20

\* _broadcast_telemetry has not run
NoBroadcast ==
    [attempts |-> 0, at |-> 0, prev_at |-> 0, telem |-> [kind |-> "none"],
     sent |-> FALSE]

\* the periodic tasks
Tasks == {"telemetry", "cleanup"}

\* Drone.start() was called once and has returned: one chain of each task
\* waits for its timer, one reader thread is at the head of its loop
StartedOnce ==
    /\ user = [pc |-> "idle", calls |-> 1]
    /\ timers = [t \in Tasks |-> [chains |-> << "armed" >>, ref |-> 1]]
    /\ rx_threads = [threads |-> << "test" >>, ref |-> 1]

\* the threads that take locks: the reader thread, the two timer threads, the
\* thread inside navigate_with_avoidance and a thread making the user's calls
LockThreads == {"rx", "telemetry", "cleanup", "nav", "user"}

\* a thread that is in none of the operations that take locks
IdleLocker == [steps |-> << >>, pc |-> 1, held |-> << >>]

\* ESP32Link.__init__: network_id = 0x12
DefaultNetworkId == 18

\* _call_service_with_retries was not called
NoRetry ==
    [pc |-> "idle", attempts |-> 0, attempt |-> 0, log |-> << >>, sleeps |-> << >>,
     last_exc |-> 0, outcome |-> [kind |-> "none", value |-> 0]]

SysIdle ==
    /\ StartedOnce
    /\ lockers = [t \in LockThreads |-> IdleLocker]
    /\ link_network_id = DefaultNetworkId
    /\ retry = NoRetry

\* Drone.start() has returned: the link is running, its reader thread is at the
\* head of its loop, both timers wait for their first interval to pass
LifeIdle ==
    /\ SysIdle
    /\ timeout_arg = << >>
    /\ link_running = TRUE
    /\ telemetry_timer = Armed(TelemetryPeriod)
    /\ cleanup_timer = Armed(CleanupPeriod)
    /\ stopping = "no"
    /\ broadcast = NoBroadcast
    /\ reader = [pc |-> "test", raised |-> 0, left |-> 0, lost |-> FALSE]

\* the drone was started and neither call was made
CallIdle ==
    /\ LifeIdle
    /\ running = TRUE
    /\ waiter = IdleWaiter
    /\ unlocked_access = {}
    /\ nav = IdleNav
    /\ snapshot = NoDrones
    /\ alias = {}
    /\ previous_velocity = ZeroVelocity
    /\ law = NoLaw

DroneIdle ==
    /\ other_drones = NoDrones
    /\ now = 0
    /\ expiry_timeout = DefaultExpiryTimeout
    /\ sweep = IdleSweep
    /\ other_drones_lock = "free"
    /\ ev = Event("init", None, 0, NoDrones, NoDrones)
    /\ removed = {}
    /\ CallIdle

(***************************************************************************)
(* link.py: the receive path                                               *)
(***************************************************************************)
\* self._preamble_bytes = struct.pack("<H", PACKET_PREAMBLE)
preamble_bytes == PackU16(PACKET_PREAMBLE)

\* bytearray.find(self._preamble_bytes): the 0-based index of the first
\* occurrence, or -1
Find(buf) ==
    LET hits == {i \in 1..(Len(buf) - 1) :
                    buf[i] = preamble_bytes[1] /\ buf[i + 1] = preamble_bytes[2]}
    IN  IF hits = {} THEN -1
        ELSE (CHOOSE i \in hits : \A j \in hits : i <= j) - 1

\* what _extract_packet returns and the rx_buffer it leaves
Extracted(buf, data) == [rx_buffer |-> buf, found |-> TRUE, packet_data |-> data]
NoPacket(buf) == [rx_buffer |-> buf, found |-> FALSE, packet_data |-> << >>]

\* _extract_packet from the header on, the buffer starting at the preamble
ParseHeader(buf) ==
    LET header == UnpackHeader(SubSeq(buf, 1, HEADER_SIZE))
        total_packet_size == HEADER_SIZE + header.payload_size
    IN  IF header.preamble # PACKET_PREAMBLE
        THEN NoPacket(Slice(buf, 1, Len(buf)))
        ELSE IF header.payload_size < 2 \/ header.payload_size > MAX_PAYLOAD_SIZE
        THEN NoPacket(Slice(buf, 1, Len(buf)))
        ELSE IF Len(buf) < total_packet_size
        THEN NoPacket(buf)
        ELSE Extracted(Slice(buf, total_packet_size, Len(buf)),
                       Slice(buf, 0, total_packet_size))

\* _extract_packet emptying the buffer when it holds no preamble
extract_packet_keep_none(buf) ==
    IF Len(buf) < HEADER_SIZE THEN NoPacket(buf)
    ELSE LET preamble_pos == Find(buf)
         IN  IF preamble_pos = -1 THEN NoPacket(<< >>)
             ELSE LET rest == IF preamble_pos > 0
                              THEN Slice(buf, preamble_pos, Len(buf)) ELSE buf
                  IN  IF Len(rest) < HEADER_SIZE THEN NoPacket(rest)
                      ELSE ParseHeader(rest)

\* ESP32Link._extract_packet
extract_packet(buf) ==
    IF Len(buf) < HEADER_SIZE THEN NoPacket(buf)
    ELSE LET preamble_pos == Find(buf)
         IN  IF preamble_pos = -1
             THEN NoPacket(IF Len(buf) > 1 THEN Slice(buf, Len(buf) - 1, Len(buf))
                           ELSE buf)
             ELSE LET rest == IF preamble_pos > 0
                              THEN Slice(buf, preamble_pos, Len(buf)) ELSE buf
                  IN  IF Len(rest) < HEADER_SIZE THEN NoPacket(rest)
                      ELSE ParseHeader(rest)

\* Python's truth value of what unpack_packet returned ("if packet:")
Truthy(pkt) ==
    IF pkt.kind = "None" THEN FALSE
    ELSE IF pkt.kind = "bytes" THEN Len(pkt.data) > 0
    ELSE TRUE

\* ESP32Link._update_receive_stats
update_receive_stats(st, packet_type, total_size) ==
    [st EXCEPT !.packets_received = @ + 1,
               !.bytes_received = @ + total_size,
               !.packets_received_by_type[packet_type] = @ + 1,
               !.bytes_received_by_type[packet_type] = @ + total_size]

\* packets_sent_by_type[packet_type] raises KeyError: the tables have the
\* members of PacketType as their keys
KeyError(packet_type) == packet_type \notin PacketType

\* ESP32Link._update_send_stats: the four statements in order, the third one
\* raising for a packet type the tables do not know
update_send_stats(st, packet_type, bytes_written) ==
    IF KeyError(packet_type)
    THEN [st EXCEPT !.packets_sent = @ + 1,
                    !.bytes_sent = @ + bytes_written]
    ELSE [st EXCEPT !.packets_sent = @ + 1,
                    !.bytes_sent = @ + bytes_written,
                    !.packets_sent_by_type[packet_type] = @ + 1,
                    !.bytes_sent_by_type[packet_type] = @ + bytes_written]

\* the bytes of one write, tagged with the thread that wrote them
Written(by, data) == [i \in 1..Len(data) |-> [by |-> by, byte |-> data[i]]]

\* generate_ack_packet(): the Ack with the random fields as drawn
generate_ack_packet(ack_type, ack_id, status) ==
    [kind |-> "AckPacket",
     header |-> PacketHeader(PACKET_PREAMBLE, ACK_SIZE, ACK, 18),
     ack_type |-> ack_type, ack_id |-> ack_id, status |-> status, crc |-> 0]

\* one send_packet call of the reader thread: the packet it was given, how many
\* packets had been given to the callbacks before it, and what it returned
SendAttempt(pkt, handled, ok) == [packet |-> pkt, handled |-> handled, ok |-> ok]

\* send_packet(ack) as _handle_received_packet calls it: the Ack is written and
\* counted when the serial port takes it
send_ack(ln, ack, write_ok) ==
    LET tried == [ln EXCEPT !.sent_by_reader =
                      Append(@, SendAttempt(ack, Len(ln.delivered), write_ok))]
    IN  IF write_ok
        THEN [tried EXCEPT
                !.serial_out = @ \o Written("rx", pack_packet(ack)),
                !.stats = update_send_stats(@, ack.header.packet_type,
                                            HEADER_SIZE + ack.header.payload_size)]
        ELSE tried

handle_received_packet_answers_all(ln, pkt, ack, write_ok) ==
    [send_ack(ln, ack, write_ok) EXCEPT !.delivered = Append(@, pkt)]

\* ESP32Link._handle_received_packet on the reader thread. ln is the link's
\* state [rx_buffer, delivered, stats, serial_out, sent_by_reader]; ack is the
\* Ack that generate_ack_packet drew and write_ok whether the serial port took
\* it. The callback registered for the packet's type runs last.
handle_received_packet(ln, pkt, ack, write_ok) ==
    LET answered == IF pkt.kind = "PingPacket" THEN send_ack(ln, ack, write_ok)
                    ELSE ln
    IN  [answered EXCEPT !.delivered = Append(@, pkt)]

\* every frame is counted as received and given to the callbacks
handle_packet_unchecked(ln, packet_data, ack, write_ok) ==
    LET header_obj == UnpackHeader(SubSeq(packet_data, 1, HEADER_SIZE))
    IN  handle_received_packet(
            [ln EXCEPT !.stats = update_receive_stats(@, BULK_DATA,
                                    HEADER_SIZE + header_obj.payload_size)],
            [kind |-> "bytes", data |-> packet_data], ack, write_ok)

\* ESP32Link._handle_packet
handle_packet(ln, packet_data, ack, write_ok) ==
    LET header_obj == UnpackHeader(SubSeq(packet_data, 1, HEADER_SIZE))
        payload == Slice(packet_data, HEADER_SIZE, Len(packet_data))
        pkt == unpack_packet(header_obj, payload)
    IN  IF Truthy(pkt)
        THEN handle_received_packet(
                [ln EXCEPT !.stats = update_receive_stats(@, header_obj.packet_type,
                                        HEADER_SIZE + header_obj.payload_size)],
                pkt, ack, write_ok)
        ELSE [ln EXCEPT !.stats.packets_corrupted = @ + 1]

\* the loop of ESP32Link._process_received_data
RECURSIVE process_packets(_, _, _)
process_packets(ln, ack, write_ok) ==
    LET e == extract_packet(ln.rx_buffer)
        taken == [ln EXCEPT !.rx_buffer = e.rx_buffer]
    IN  IF ~e.found THEN taken
        ELSE process_packets(handle_packet(taken, e.packet_data, ack, write_ok),
                             ack, write_ok)

\* ESP32Link._process_received_data(data)
process_received_data(ln, data, ack, write_ok) ==
    process_packets([ln EXCEPT !.rx_buffer = @ \o data], ack, write_ok)

(***************************************************************************)
(* Packets and byte streams the model is run on                            *)
(***************************************************************************)
\* the network id of lib/packet_generator.py
GenNetworkId == 18

\* typed packets as a sender builds them (crc = 0 until packed)
ConfigPacket(network_id, wifi_channel, tx_power) ==
    [kind |-> "ConfigPacket",
     header |-> PacketHeader(PACKET_PREAMBLE, CONFIG_SIZE, CONFIG, network_id),
     network_id |-> network_id, wifi_channel |-> wifi_channel,
     tx_power |-> tx_power, crc |-> 0]

PingPacket(timestamp) ==
    [kind |-> "PingPacket",
     header |-> PacketHeader(PACKET_PREAMBLE, PING_SIZE, PING, GenNetworkId),
     timestamp |-> timestamp, crc |-> 0]

\* generate_bulk_packet(): a raw BULK_DATA frame around the bytes data
BulkFrame(data) ==
    LET header == PackHeader(PacketHeader(PACKET_PREAMBLE, Len(data) + 2,
                                          BULK_DATA, GenNetworkId))
    IN  [kind |-> "bytes",
         data |-> header \o data
                    \o PackU16(calculate_crc16(header \o data \o << 0, 0 >>))]

\* what the receiver decodes from the bytes of a well-formed frame
Decoded(frame) ==
    unpack_packet(UnpackHeader(SubSeq(frame, 1, HEADER_SIZE)),
                  Slice(frame, HEADER_SIZE, Len(frame)))

\* the longest run of garbage between packets
MaxGarbage == 4

\* byte strings over the two preamble bytes that hold no preamble
RECURSIVE Repeat(_, _)
Repeat(b, n) == IF n = 0 THEN << >> ELSE << b >> \o Repeat(b, n - 1)

Garbage ==
    {Repeat(170, i) \o Repeat(85, j) : i \in 0..MaxGarbage, j \in 0..MaxGarbage}
        \cap UNION {[1..n -> {85, 170}] : n \in 0..MaxGarbage}

\* valid packets of the resynchronisation runs; the Config payload holds the
\* two preamble bytes
ResyncPackets ==
    {ConfigPacket(85, 170, 11), BulkFrame(<< >>), BulkFrame(<< 85 >>)}

\* the other typed packets, as lib/packet_generator.py and link.py build them
TelemetryPacket(drone_id, x, y, z, vx, vy, vz) ==
    [kind |-> "TelemetryPacket",
     header |-> PacketHeader(PACKET_PREAMBLE, TELEMETRY_SIZE, TELEMETRY, GenNetworkId),
     drone_id |-> drone_id, x |-> x, y |-> y, z |-> z,
     vx |-> vx, vy |-> vy, vz |-> vz, crc |-> 0]

CommandPacket(command_id, target_id, param) ==
    [kind |-> "CommandPacket",
     header |-> PacketHeader(PACKET_PREAMBLE, COMMAND_SIZE, COMMAND, GenNetworkId),
     command_id |-> command_id, target_id |-> target_id, param |-> param,
     crc |-> 0]

StatusPacket(drone_id, status_code, battery_mv, error_flags) ==
    [kind |-> "StatusPacket",
     header |-> PacketHeader(PACKET_PREAMBLE, STATUS_SIZE, STATUS, GenNetworkId),
     drone_id |-> drone_id, status_code |-> status_code,
     battery_mv |-> battery_mv, error_flags |-> error_flags, crc |-> 0]

SensorPacket(sensor_id, value1, value2, value3) ==
    [kind |-> "SensorPacket",
     header |-> PacketHeader(PACKET_PREAMBLE, SENSOR_SIZE, SENSOR_DATA, GenNetworkId),
     sensor_id |-> sensor_id, value1 |-> value1, value2 |-> value2,
     value3 |-> value3, crc |-> 0]

CustomMessagePacket(custom_data) ==
    [kind |-> "CustomMessagePacket",
     header |-> PacketHeader(PACKET_PREAMBLE, CUSTOM_MESSAGE_SIZE, CUSTOM_MESSAGE,
                             GenNetworkId),
     custom_data |-> custom_data, crc |-> 0]

\* doubles: 0.0, 1.0, -1.5 and two doubles that are no float32 values,
\* 1 + 2^-26 and 2 - 2^-26
One == 2 ^ FloatFrac
FloatValues == {0, One, -(3 * One) \div 2, One + 1, 2 * One - 1}

\* a custom message as send_custom_message pads it, and 126 bytes without a null
PaddedText == [i \in 1..126 |-> IF i = 1 THEN 104 ELSE IF i = 2 THEN 105 ELSE 0]
RawText == [i \in 1..126 |-> i]

\* the typed packets the codec is run on: every kind, the ends of the integer
\* ranges (a u32 up to 2^31 - 1), bytes of the preamble inside the payload
CodecPackets ==
    {TelemetryPacket(7, x, y, One, 0, -One, 0) : x, y \in FloatValues}
    \cup {CommandPacket(1, 7, 43605), CommandPacket(255, 0, 65535)}
    \cup {StatusPacket(7, 4, 3300, 0), StatusPacket(9, 0, 4200, 65535)}
    \cup {SensorPacket(1, One, -(3 * One) \div 2, One + 1)}
    \cup {ConfigPacket(18, 1, 11), ConfigPacket(85, 170, 255)}
    \cup {PingPacket(0), PingPacket(43605), PingPacket(2147483647)}
    \cup {generate_ack_packet(1, 0, 0), generate_ack_packet(8, 255, 65535)}
    \cup {CustomMessagePacket(PaddedText), CustomMessagePacket(RawText)}

\* p with its crc field already holding the CRC16 of its bytes
WithCrc(p) ==
    [p EXCEPT !.crc = calculate_crc16(PackHeader(p.header) \o PackFields(p)
                                        \o << 0, 0 >>)]

(***************************************************************************)
(* The codec on one packet: pack, maybe damage one payload byte, unpack     *)
(***************************************************************************)
\* payloads up to this size are damaged with every byte value, longer ones
\* with every single-bit flip and the complement
MaxExhaustive == 6

FlipMasks == {1, 2, 4, 8, 16, 32, 64, 128, 255}

Damaged(old) ==
    IF Len(wire) - HEADER_SIZE <= MaxExhaustive
    THEN (0..255) \ {old}
    ELSE {XorByte[old][m] : m \in FlipMasks}

Pack ==
    /\ phase = "new"
    /\ wire' = pack_packet(packet)
    /\ phase' = "packed"
    /\ UNCHANGED << packet, unpacked, linkVars, sendVars, droneVars, callVars >>

\* one byte of the payload (CRC trailer included) is replaced by another value
Corrupt ==
    /\ phase = "packed"
    /\ \E i \in (HEADER_SIZE + 1)..Len(wire) :
          \E v \in Damaged(wire[i]) : wire' = [wire EXCEPT ![i] = v]
    /\ phase' = "damaged"
    /\ UNCHANGED << packet, unpacked, linkVars, sendVars, droneVars, callVars >>

\* the wire bytes are split into header and payload and given to unpack_packet
Unpack ==
    /\ phase \in {"packed", "damaged"}
    /\ unpacked' = unpack_packet(UnpackHeader(SubSeq(wire, 1, HEADER_SIZE)),
                                 Slice(wire, HEADER_SIZE, Len(wire)))
    /\ phase' = IF phase = "packed" THEN "unpacked" ELSE "unpacked damaged"
    /\ UNCHANGED << packet, wire, linkVars, sendVars, droneVars, callVars >>

LinkUnused ==
    /\ LinkIdle
    /\ serial_in = << >>
    /\ stream = << >>
    /\ SendIdle
    /\ DroneIdle

InitCodec ==
    /\ LinkUnused
    /\ packet \in CodecPackets \cup {WithCrc(PingPacket(43605)),
                                     WithCrc(TelemetryPacket(9, One, 0, 0, 0, 0, 0))}
    /\ wire = << >>
    /\ unpacked = None
    /\ phase = "new"

NextCodec == Pack \/ Corrupt \/ Unpack

SpecCodec == InitCodec /\ [][NextCodec]_vars

\* the fields of each kind of packet, by wire type
IntFields(kind) ==
    CASE kind = "TelemetryPacket" -> {"drone_id"}
      [] kind = "CommandPacket" -> {"command_id", "target_id", "param"}
      [] kind = "StatusPacket" -> {"drone_id", "status_code", "battery_mv", "error_flags"}
      [] kind = "SensorPacket" -> {"sensor_id"}
      [] kind = "ConfigPacket" -> {"network_id", "wifi_channel", "tx_power"}
      [] kind = "PingPacket" -> {"timestamp"}
      [] kind = "AckPacket" -> {"ack_type", "ack_id", "status"}
      [] kind = "CustomMessagePacket" -> {"custom_data"}

FloatFields(kind) ==
    CASE kind = "TelemetryPacket" -> {"x", "y", "z", "vx", "vy", "vz"}
      [] kind = "SensorPacket" -> {"value1", "value2", "value3"}
      [] OTHER -> {}

Abs(m) == IF m < 0 THEN -m ELSE m

\* the spacing of the float32 values around the double m
Ulp(m) == IF Log2(Abs(m)) > 23 THEN 2 ^ (Log2(Abs(m)) - 23) ELSE 1

\* the double m is a float32 value
IsF32(m) == Abs(m) % Ulp(m) = 0

\* C6 as stated: unpacking the bytes of pack_packet(p) returns a packet equal to p.
C6_RoundTrip ==
    phase = "unpacked" => unpacked = packet

\* C6 as amended: unpacking the bytes of pack_packet(p) returns a packet of p's
\* kind with p's header and p's integer and byte fields; each float field is a
\* float32 value within half a float32 spacing of p's (p's value when that is a
\* float32 value); the crc field is the CRC16 pack_packet wrote, whatever p.crc
\* was. So the result equals p when p.crc is that CRC and p's floats are
\* float32 values.
C6_RoundTripAmended ==
    phase = "unpacked" =>
        /\ unpacked.kind = packet.kind
        /\ unpacked.header = packet.header
        /\ \A f \in IntFields(packet.kind) : unpacked[f] = packet[f]
        /\ \A f \in FloatFields(packet.kind) :
              /\ IsF32(unpacked[f])
              /\ 2 * Abs(unpacked[f] - packet[f]) <= Ulp(packet[f])
        /\ unpacked.crc = UnpackU16(SubSeq(wire, Len(wire) - 1, Len(wire)))
        /\ unpacked.crc = calculate_crc16(wire)
        /\ ((packet.crc = unpacked.crc
                /\ \A f \in FloatFields(packet.kind) : IsF32(packet[f]))
            => unpacked = packet)

\* a telemetry packet whose x is no float32 value came back with x rounded
\* and the crc filled in
C6_Witness ==
    /\ phase = "unpacked"
    /\ packet.kind = "TelemetryPacket"
    /\ packet.x = One + 1
    /\ unpacked.x = One
    /\ packet.crc = 0
    /\ unpacked.crc # 0

\* C7: a packed packet in which one payload byte (CRC trailer included) was
\* replaced by a different value is rejected by unpack_packet.
C7_DamageRejected ==
    phase = "unpacked damaged" => unpacked = None

\* a damaged custom message and a packet damaged in its CRC trailer were rejected
C7_Witness ==
    /\ phase = "unpacked damaged"
    /\ unpacked = None
    /\ wire # pack_packet(packet)
    /\ \/ packet.kind = "CustomMessagePacket"
       \/ SubSeq(wire, 1, Len(wire) - 2)
            = SubSeq(pack_packet(packet), 1, Len(wire) - 2)

(***************************************************************************)
(* The reader thread                                                       *)
(***************************************************************************)
LinkState ==
    [rx_buffer |-> rx_buffer, delivered |-> delivered, stats |-> stats,
     serial_out |-> serial_out, sent_by_reader |-> sent_by_reader]

\* One round of ESP32Link._receive_thread: the serial port has n bytes waiting,
\* they are read and given to _process_received_data.
SetLinkState(ln) ==
    /\ rx_buffer' = ln.rx_buffer
    /\ delivered' = ln.delivered
    /\ stats' = ln.stats
    /\ serial_out' = ln.serial_out
    /\ sent_by_reader' = ln.sent_by_reader

ReadChunk(n, ack, write_ok) ==
    /\ n \in 1..Len(serial_in)
    /\ SetLinkState(process_received_data(LinkState, SubSeq(serial_in, 1, n),
                                          ack, write_ok))
    /\ serial_in' = Slice(serial_in, n, Len(serial_in))
    /\ UNCHANGED << stream, codecVars, sendVars, droneVars, callVars >>

\* garbage, a packet, garbage, a packet
InitResync ==
    /\ CodecIdle
    /\ LinkIdle
    /\ SendIdle
    /\ DroneIdle
    /\ \E g1 \in Garbage, A \in ResyncPackets, g2 \in Garbage, B \in ResyncPackets :
          /\ stream = << g1, A, g2, B >>
          /\ serial_in = g1 \o Encoded(A) \o g2 \o Encoded(B)

\* no Ping is in these streams, so no Ack is drawn or written
NextResync ==
    \E n \in 1..Len(serial_in) : ReadChunk(n, generate_ack_packet(1, 0, 0), TRUE)

SpecResync == InitResync /\ [][NextResync]_vars

\* C1: when all of garbage1 + A + garbage2 + B has been read, in whatever chunks,
\* exactly the decoded A and then the decoded B were delivered, and no packet
\* was ever counted as corrupted.
C1_Resync ==
    /\ stats.packets_corrupted = 0
    /\ serial_in = << >> =>
          delivered = << Decoded(Encoded(stream[2])),
                         Decoded(Encoded(stream[4])) >>

\* C1 for packets that are not an empty bulk frame
C1_ResyncNonEmpty ==
    (\A i \in {2, 4} : stream[i] # BulkFrame(<< >>)) => C1_Resync

(***************************************************************************)
(* The reader thread on frames of every sort                               *)
(***************************************************************************)
\* a frame as a peer's firmware could send it: any type byte around any body,
\* the header's payload_size and the CRC16 correct for these bytes
RawFrame(packet_type, body) ==
    LET header == PackHeader(PacketHeader(PACKET_PREAMBLE, Len(body) + 2,
                                          packet_type, GenNetworkId))
    IN  header \o body \o PackU16(calculate_crc16(header \o body \o << 0, 0 >>))

Body(n) == [i \in 1..n |-> i]

\* the fixed-size kinds
FixedSizeTypes == PacketType \ {BULK_DATA}

\* frames of a fixed-size kind whose payload_size is not the kind's: the smallest
\* payload, one byte short, one byte long
WrongSizes(packet_type) ==
    ({2, ExpectedSize(packet_type) - 1, ExpectedSize(packet_type) + 1}
        \cap (2..MAX_PAYLOAD_SIZE))

WrongSizeFrames ==
    UNION {{RawFrame(t, Body(n - 2)) : n \in WrongSizes(t) \ {ExpectedSize(t)}} :
              t \in FixedSizeTypes}

\* a Ping whose CRC trailer was damaged, frames of unknown type, and headers
\* whose payload_size is out of range
BadCrcFrame ==
    LET f == pack_packet(PingPacket(0)) IN [f EXCEPT ![Len(f)] = XorByte[@][255]]

UnknownTypeFrames == {RawFrame(0, << 1 >>), RawFrame(10, << >>)}

BadHeaders ==
    {PackHeader(PacketHeader(PACKET_PREAMBLE, n, PING, GenNetworkId)) :
        n \in {1, MAX_PAYLOAD_SIZE + 1}}

\* well-formed frames
GoodFrames ==
    {pack_packet(PingPacket(0)), pack_packet(StatusPacket(7, 4, 3300, 0)),
     pack_packet(ConfigPacket(85, 170, 11)),
     BulkFrame(<< 85 >>).data, BulkFrame(<< >>).data}

LinkFrames ==
    GoodFrames \cup WrongSizeFrames \cup {BadCrcFrame} \cup UnknownTypeFrames
        \cup BadHeaders

\* the Acks generate_ack_packet may draw
Acks == {generate_ack_packet(1, 0, 0), generate_ack_packet(8, 255, 65535)}

\* the serial port hands over up to MaxChunk bytes, or all it has
MaxChunk == 3

Chunks(len) == {n \in 1..len : n <= MaxChunk \/ n = len}

\* a frame of any sort, then a well-formed frame
InitLink ==
    /\ CodecIdle
    /\ LinkIdle
    /\ SendIdle
    /\ DroneIdle
    /\ \E X \in LinkFrames, Y \in GoodFrames :
          /\ stream = << X, Y >>
          /\ serial_in = X \o Y

NextLink ==
    \E n \in Chunks(Len(serial_in)), ack \in Acks, write_ok \in BOOLEAN :
        ReadChunk(n, ack, write_ok)

SpecLink == InitLink /\ [][NextLink]_vars

\* frame is a whole frame of a fixed-size kind with a valid CRC whose header
\* payload_size is not the kind's size
WrongSize(frame) ==
    LET header == UnpackHeader(SubSeq(frame, 1, HEADER_SIZE))
    IN  /\ header.preamble = PACKET_PREAMBLE
        /\ header.packet_type \in FixedSizeTypes
        /\ header.payload_size \in 2..MAX_PAYLOAD_SIZE
        /\ header.payload_size # ExpectedSize(header.packet_type)
        /\ Len(frame) = HEADER_SIZE + header.payload_size
        /\ CrcOk(header, Slice(frame, HEADER_SIZE, Len(frame)))

\* C8: unpack_packet returns None for a frame of a fixed-size kind whose
\* payload_size is not the kind's size although its CRC is valid; and the
\* reader goes on after such a frame: once the stream is read the buffer is
\* empty, the frame was counted as corrupted and the frame behind it was
\* handled, a Ping or Status packet being delivered.
C8_WrongSizeRejected ==
    (serial_in = << >> /\ WrongSize(stream[1])) =>
        /\ Decoded(stream[1]) = None
        /\ rx_buffer = << >>
        /\ stats.packets_corrupted + stats.packets_received = 2
        /\ stats.packets_corrupted >= 1
        /\ Decoded(stream[2]).kind \in {"PingPacket", "StatusPacket"} =>
              /\ delivered = << Decoded(stream[2]) >>
              /\ stats.packets_corrupted = 1

\* a Telemetry frame of the wrong size was rejected and the Status packet
\* behind it delivered
C8_Witness ==
    /\ serial_in = << >>
    /\ WrongSize(stream[1])
    /\ stream[1][4] = TELEMETRY
    /\ stats.packets_corrupted = 1
    /\ Len(delivered) = 1
    /\ delivered[1].kind = "StatusPacket"

\* where the Ping packets stand among the packets given to the callbacks
PingPositions == {k \in 1..Len(delivered) : delivered[k].kind = "PingPacket"}

\* C20: the reader thread calls send_packet once for every Ping packet it
\* decodes and for no other packet: each of its calls sends an Ack, is made
\* when exactly the packets in front of a Ping have been given to the callbacks
\* (so before any later frame is handled), no two calls belong to the same
\* Ping, and the Ping itself is given to its callback. What reaches the serial
\* port is one Ack frame for every call the port accepted. Once a stream of
\* two well-formed frames is read, every Ping frame in it was so answered.
C20_PingAnswered ==
    /\ Len(sent_by_reader) = Cardinality(PingPositions)
    /\ \A i \in 1..Len(sent_by_reader) :
          /\ sent_by_reader[i].packet.kind = "AckPacket"
          /\ sent_by_reader[i].handled + 1 \in PingPositions
          /\ \A j \in 1..Len(sent_by_reader) :
                i < j => sent_by_reader[i].handled < sent_by_reader[j].handled
    /\ Len(serial_out) =
          (HEADER_SIZE + ACK_SIZE)
              * Cardinality({i \in 1..Len(sent_by_reader) : sent_by_reader[i].ok})
    /\ (serial_in = << >> /\ stream[1] \in GoodFrames) =>
          Cardinality(PingPositions)
              = Cardinality({j \in 1..2 : Decoded(stream[j]).kind = "PingPacket"})

\* a Ping and then a Status packet were read and given to the callbacks; one
\* Ack was sent, before either of them reached its callback
C20_Witness ==
    /\ serial_in = << >>
    /\ Len(delivered) = 2
    /\ delivered[1].kind = "PingPacket"
    /\ delivered[2].kind = "StatusPacket"
    /\ Len(sent_by_reader) = 1
    /\ sent_by_reader[1].handled = 0
    /\ sent_by_reader[1].ok
    /\ Len(serial_out) = HEADER_SIZE + ACK_SIZE

(***************************************************************************)
(* link.py: send_packet called from several threads                        *)
(***************************************************************************)
\* Drone.drone_id of this drone
OwnId == 1

\* calls of send_packet, all threads together
MaxCalls == 3

RECURSIVE Sum(_, _)
Sum(f, S) ==
    IF S = {} THEN 0
    ELSE LET t == CHOOSE t \in S : TRUE IN f[t] + Sum(f, S \ {t})

Calls == Sum([t \in SendThreads |-> senders[t].calls], SendThreads)

\* what the callers send: the user a Ping, raw bulk bytes, raw bytes whose type
\* byte is no PacketType, raw bytes shorter than a header; the telemetry timer
\* its Telemetry; the reader thread an Ack
SendJobs(t) ==
    CASE t = "user" -> {PingPacket(0), BulkFrame(<< 1, 2 >>),
                        [kind |-> "bytes", data |-> RawFrame(0, << >>)],
                        [kind |-> "bytes", data |-> << 85, 170, 2 >>]}
      [] t = "telemetry" -> {TelemetryPacket(OwnId, One, 0, One, 0, 0, 0)}
      [] t = "rx" -> {generate_ack_packet(1, 0, 0)}

\* the byte counts at which the transport may fail (raise) or return short
FailPoints == {0, 3}
ShortPoints == {3}

\* "with self._lock" may be entered
CanAcquire_always(lock) == TRUE

CanAcquire(lock) == lock = "free"

sendUnchanged ==
    << codecVars, droneVars, callVars, serial_in, rx_buffer, delivered, sent_by_reader,
       stream >>

Returned(sd, ret) == [sd EXCEPT !.pc = "returned", !.ret = ret]

\* send_packet is called; it returns False at once when the port is not open
SendCall(t, p) ==
    /\ senders[t].pc \in {"idle", "returned"}
    /\ Calls < MaxCalls
    /\ LET sd == [IdleSender EXCEPT !.packet = p, !.calls = senders[t].calls + 1]
       IN  senders' = [senders EXCEPT ![t] =
                          IF is_open THEN [sd EXCEPT !.pc = "lock"]
                          ELSE Returned(sd, FALSE)]
    /\ UNCHANGED << send_lock, is_open, stats, serial_out, sendUnchanged >>

\* the lock is taken and data, total_size and packet_type are worked out; raw
\* bytes without a type byte raise struct.error, which ends the call
AcquireAndPack(t) ==
    /\ senders[t].pc = "lock"
    /\ CanAcquire(send_lock)
    /\ LET sd == senders[t]
           p == sd.packet
       IN  IF p.kind = "bytes"
           THEN IF Len(p.data) < 4
                THEN /\ senders' = [senders EXCEPT ![t] = Returned(sd, FALSE)]
                     /\ UNCHANGED send_lock
                ELSE /\ senders' = [senders EXCEPT ![t] =
                            [sd EXCEPT !.pc = "write", !.data = p.data,
                                       !.total_size = Len(p.data),
                                       !.packet_type = p.data[4],
                                       !.attempts = 1]]
                     /\ send_lock' = t
           ELSE /\ senders' = [senders EXCEPT ![t] =
                       [sd EXCEPT !.pc = "write", !.data = pack_packet(p),
                                  !.total_size = HEADER_SIZE + p.header.payload_size,
                                  !.packet_type = p.header.packet_type,
                                  !.attempts = 1]]
                /\ send_lock' = t
    /\ UNCHANGED << is_open, stats, serial_out, sendUnchanged >>

\* serial_port.write puts the next byte on the wire
WriteByte(t) ==
    /\ senders[t].pc = "write"
    /\ is_open
    /\ senders[t].written < Len(senders[t].data)
    /\ serial_out' = Append(serial_out,
                            [by |-> t, byte |-> senders[t].data[senders[t].written + 1]])
    /\ senders' = [senders EXCEPT ![t].written = @ + 1]
    /\ UNCHANGED << send_lock, is_open, stats, sendUnchanged >>

\* serial_port.write returns the number of bytes it wrote
WriteReturns(t) ==
    /\ senders[t].pc = "write"
    /\ \/ senders[t].written = Len(senders[t].data)
       \/ is_open /\ senders[t].written \in ShortPoints
    /\ senders' = [senders EXCEPT ![t].pc = "flush",
                                  ![t].bytes_written = senders[t].written]
    /\ UNCHANGED << send_lock, is_open, stats, serial_out, sendUnchanged >>

\* serial_port.write raises: the port was closed or the transport failed
WriteRaises(t) ==
    /\ senders[t].pc = "write"
    /\ senders[t].written < Len(senders[t].data)
    /\ ~is_open \/ senders[t].written \in FailPoints
    /\ senders' = [senders EXCEPT ![t] = Returned(@, FALSE)]
    /\ send_lock' = "free"
    /\ UNCHANGED << is_open, stats, serial_out, sendUnchanged >>

\* serial_port.flush(), then "if bytes_written == total_size"
Flush(t) ==
    /\ senders[t].pc = "flush"
    /\ LET sd == senders[t]
       IN  IF ~is_open
           THEN /\ senders' = [senders EXCEPT ![t] = Returned(sd, FALSE)]
                /\ send_lock' = "free"
           ELSE IF sd.bytes_written = sd.total_size
           THEN /\ senders' = [senders EXCEPT ![t] =
                       [sd EXCEPT !.pc = "stats",
                                  !.accepted = (sd.bytes_written = Len(sd.data))]]
                /\ UNCHANGED send_lock
           ELSE /\ senders' = [senders EXCEPT ![t] =
                       Returned([sd EXCEPT !.accepted =
                                    (sd.bytes_written = Len(sd.data))], FALSE)]
                /\ send_lock' = "free"
    /\ UNCHANGED << is_open, stats, serial_out, sendUnchanged >>

\* _update_send_stats under stats.lock, then "return True"; its KeyError is
\* caught by send_packet, which then returns False
UpdateStats(t) ==
    /\ senders[t].pc = "stats"
    /\ LET sd == senders[t]
           type == sd.packet_type
           new == update_send_stats(stats, type, sd.bytes_written)
           effect ==
               [packets_sent |-> new.packets_sent - stats.packets_sent,
                bytes_sent |-> new.bytes_sent - stats.bytes_sent,
                by_type |-> IF type \in PacketType
                            THEN new.packets_sent_by_type[type]
                                    - stats.packets_sent_by_type[type]
                            ELSE 0,
                bytes_by_type |-> IF type \in PacketType
                                  THEN new.bytes_sent_by_type[type]
                                          - stats.bytes_sent_by_type[type]
                                  ELSE 0]
       IN  /\ stats' = new
           /\ senders' = [senders EXCEPT ![t] =
                             Returned([sd EXCEPT !.effect = effect], ~KeyError(type))]
    /\ send_lock' = "free"
    /\ UNCHANGED << is_open, serial_out, sendUnchanged >>

\* disconnect() closes the serial port
ClosePort ==
    /\ is_open
    /\ is_open' = FALSE
    /\ UNCHANGED << senders, send_lock, stats, serial_out, sendUnchanged >>

InitSend ==
    /\ CodecIdle
    /\ LinkIdle
    /\ serial_in = << >>
    /\ stream = << >>
    /\ SendIdle
    /\ DroneIdle

NextSend ==
    \/ \E t \in SendThreads : \E p \in SendJobs(t) : SendCall(t, p)
    \/ \E t \in SendThreads : AcquireAndPack(t)
    \/ \E t \in SendThreads : WriteByte(t)
    \/ \E t \in SendThreads : WriteReturns(t)
    \/ \E t \in SendThreads : WriteRaises(t)
    \/ \E t \in SendThreads : Flush(t)
    \/ \E t \in SendThreads : UpdateStats(t)
    \/ ClosePort

SpecSend == InitSend /\ [][NextSend]_vars

\* the threads inside "with self._lock"
InLock == {t \in SendThreads : senders[t].pc \in {"write", "flush", "stats"}}

\* C9: the writes of concurrent send_packet callers exclude each other: at most
\* one caller is between taking the lock and leaving it, and what it has
\* written so far is the end of the bytes on the wire, so no byte of another
\* packet got in between before the packet was written and flushed.
C9_WritesExclusive ==
    /\ Cardinality(InLock) <= 1
    /\ \A t \in InLock :
          /\ send_lock = t
          /\ senders[t].written <= Len(serial_out)
          /\ SubSeq(serial_out, Len(serial_out) - senders[t].written + 1,
                    Len(serial_out))
                = Written(t, SubSeq(senders[t].data, 1, senders[t].written))

\* the telemetry timer has written its whole packet while the user thread and
\* the reader thread wait for the lock, bytes of an earlier packet before it
C9_Witness ==
    /\ senders["telemetry"].pc = "flush"
    /\ senders["telemetry"].written = HEADER_SIZE + TELEMETRY_SIZE
    /\ senders["user"].pc = "lock"
    /\ senders["rx"].pc = "returned"
    /\ senders["rx"].ret
    /\ Len(serial_out) = (HEADER_SIZE + ACK_SIZE) + (HEADER_SIZE + TELEMETRY_SIZE)

\* what C10 says of the call of thread t that has returned
SendResultOk(t) ==
    /\ senders[t].ret = senders[t].accepted
    /\ senders[t].ret =>
          senders[t].effect =
             [packets_sent |-> 1, bytes_sent |-> Len(senders[t].data),
              by_type |-> 1, bytes_by_type |-> Len(senders[t].data)]
    /\ ~senders[t].ret =>
          /\ senders[t].effect = NoEffect
          /\ senders[t].attempts <= 1

\* C10: send_packet returns True exactly when the transport took all bytes of
\* the packet; then packets_sent and the type's count grew by 1 and bytes_sent
\* and the type's bytes by the packet length; when it returns False no send
\* counter changed and write was called at most once.
C10_SendResult ==
    \A t \in SendThreads : senders[t].pc = "returned" => SendResultOk(t)

\* C10 for the calls whose packet has a PacketType as its type byte
C10_KnownTypes ==
    \A t \in SendThreads :
        (senders[t].pc = "returned"
            /\ (senders[t].attempts = 0 \/ ~KeyError(senders[t].packet_type)))
        => SendResultOk(t)

(***************************************************************************)
(* drone.py: the presence table                                            *)
(***************************************************************************)
\* the drone ids on the air: this drone's and two peers'
PeerIds == {7, 9}
Ids == {OwnId} \cup PeerIds

\* drone_data.py
DronePosition(x, y, z, vx, vy, vz) ==
    [x |-> x, y |-> y, z |-> z, vx |-> vx, vy |-> vy, vz |-> vz,
     yaw |-> 0, yaw_rate |-> 0, frame_id |-> "aruco_map"]

DroneInfo(drone_id, position, last_seen, discovered_via) ==
    [drone_id |-> drone_id, position |-> position, last_seen |-> last_seen,
     discovered_via |-> discovered_via]

\* the Telemetry and Status packets the reader thread hands to the drone
TelemetryPackets ==
    {TelemetryPacket(id, x, 0, One, vx, 0, 0) :
        id \in Ids, x \in {0, One}, vx \in {-One}}

StatusPackets == {StatusPacket(id, 0, 4200, 0) : id \in Ids}

\* the instants of time.time() at which something happens, in tenths of a second
MaxTime == 61
Instants == {0, 29, 30, 31, MaxTime}

\* the arguments set_drone_expiry_timeout is called with: 0.5 s and 3.0 s
TimeoutArgs == {5, 30}

Max(a, b) == IF a >= b THEN a ELSE b

\* the locked part of Drone._handle_telemetry_packet
handle_telemetry_packet_any(table, pkt, current_time) ==
    [k \in DOMAIN table \cup {pkt.drone_id} |->
        IF k = pkt.drone_id
        THEN DroneInfo(pkt.drone_id,
                       DronePosition(pkt.x, pkt.y, pkt.z, pkt.vx, pkt.vy, pkt.vz),
                       current_time, "telemetry")
        ELSE table[k]]

handle_telemetry_packet(table, pkt, current_time) ==
    IF pkt.drone_id # OwnId
    THEN [k \in DOMAIN table \cup {pkt.drone_id} |->
             IF k = pkt.drone_id
             THEN DroneInfo(pkt.drone_id,
                            DronePosition(pkt.x, pkt.y, pkt.z, pkt.vx, pkt.vy, pkt.vz),
                            current_time, "telemetry")
             ELSE table[k]]
    ELSE table

\* a Status packet marks the entry as discovered via status
handle_status_packet_marks(table, pkt, current_time) ==
    IF pkt.drone_id # OwnId /\ pkt.drone_id \in DOMAIN table
    THEN [table EXCEPT ![pkt.drone_id].last_seen = current_time,
                       ![pkt.drone_id].discovered_via = "status"]
    ELSE table

\* a Status packet creates the entry of a drone that is not known
handle_status_packet_creates(table, pkt, current_time) ==
    IF pkt.drone_id = OwnId THEN table
    ELSE [k \in DOMAIN table \cup {pkt.drone_id} |->
             IF k = pkt.drone_id
             THEN IF k \in DOMAIN table
                  THEN [table[k] EXCEPT !.last_seen = current_time]
                  ELSE DroneInfo(k, DronePosition(0, 0, 0, 0, 0, 0),
                                 current_time, "status")
             ELSE table[k]]

\* the locked part of Drone._handle_status_packet
handle_status_packet(table, pkt, current_time) ==
    IF pkt.drone_id # OwnId /\ pkt.drone_id \in DOMAIN table
    THEN [table EXCEPT ![pkt.drone_id].last_seen = current_time]
    ELSE table

\* the entry is dropped already when the timeout is reached
Expired_ge(current_time, last_seen, timeout) == current_time - last_seen >= timeout

\* "current_time - drone_info.last_seen > self._drone_expiry_timeout"
Expired(current_time, last_seen, timeout) == current_time - last_seen > timeout

\* list(self._other_drones.items()): the keys in the order of the dict, taken
\* here as the ascending one (the scan does not depend on the order)
RECURSIVE Items(_)
Items(S) ==
    IF S = {} THEN << >>
    ELSE LET k == CHOOSE k \in S : \A j \in S : k <= j
         IN  << k >> \o Items(S \ {k})

Range(seq) == {seq[i] : i \in 1..Len(seq)}

droneUnchanged == << codecVars, linkVars, sendVars, waitVars, navVars, lifeVars >>

\* The reader thread calls _handle_telemetry_packet: the lock is taken unless
\* the packet is this drone's own, time.time() is read under the lock.
HandleTelemetry(pkt) ==
    /\ pkt.drone_id = OwnId \/ other_drones_lock = "free"
    /\ other_drones' = handle_telemetry_packet(other_drones, pkt, now)
    /\ ev' = Event("telemetry", pkt, now, other_drones, NoDrones)
    /\ removed' = removed \ {pkt.drone_id}
    /\ alias' = IF pkt.drone_id = OwnId THEN alias ELSE alias \ {pkt.drone_id}
    /\ UNCHANGED << now, expiry_timeout, sweep, other_drones_lock, snapshot,
                    droneUnchanged >>

\* The reader thread calls _handle_status_packet.
HandleStatus(pkt) ==
    /\ pkt.drone_id = OwnId \/ other_drones_lock = "free"
    /\ other_drones' = handle_status_packet(other_drones, pkt, now)
    /\ ev' = Event("status", pkt, now, other_drones, NoDrones)
    /\ snapshot' = [k \in DOMAIN snapshot |->
                       IF k \in alias THEN other_drones'[k] ELSE snapshot[k]]
    /\ UNCHANGED << now, expiry_timeout, sweep, other_drones_lock, removed, alias,
                    droneUnchanged >>

\* time passes
Tick ==
    /\ \E t \in Instants : t > now /\ now' = t
    /\ ev' = Event("tick", None, now', other_drones, NoDrones)
    /\ UNCHANGED << other_drones, expiry_timeout, sweep, other_drones_lock,
                    removed, snapVars, droneUnchanged >>

\* the timeout is stored as it is given
set_drone_expiry_timeout_as_given(timeout) == timeout

\* "self._drone_expiry_timeout = max(1.0, timeout)"
set_drone_expiry_timeout(timeout) == Max(10, timeout)

\* Drone.set_drone_expiry_timeout(timeout), from the user's thread, no lock
SetExpiryTimeout(timeout) ==
    /\ expiry_timeout' = set_drone_expiry_timeout(timeout)
    /\ expiry_timeout' # expiry_timeout
    /\ timeout_arg' = << timeout >>
    /\ ev' = Event("set_timeout", None, now, other_drones, NoDrones)
    /\ UNCHANGED << other_drones, now, sweep, other_drones_lock, removed,
                    snapVars, codecVars, linkVars, sendVars, waitVars, navVars,
                    link_running, telemetry_timer, cleanup_timer, stopping,
                    broadcast, reader, sysVars >>

\* _cleanup_expired_drones on the cleanup timer thread: time.time() is read
\* before the lock is asked for
SweepStart ==
    /\ sweep.pc = "idle"
    /\ sweep' = [IdleSweep EXCEPT !.pc = "lock", !.current_time = now]
    /\ UNCHANGED << other_drones, now, expiry_timeout, other_drones_lock, ev,
                    removed, snapVars, droneUnchanged >>

\* "with self._other_drones_lock", and the list of the items is made
SweepLock ==
    /\ sweep.pc = "lock"
    /\ other_drones_lock = "free"
    /\ other_drones_lock' = "sweep"
    /\ sweep' = [sweep EXCEPT !.pc = "scan", !.todo = Items(DOMAIN other_drones)]
    /\ UNCHANGED << other_drones, now, expiry_timeout, ev, removed, snapVars, droneUnchanged >>

\* one round of the first loop: the entry is compared with the timeout as it
\* is at this moment
SweepExamine ==
    /\ sweep.pc = "scan"
    /\ sweep.todo # << >>
    /\ LET k == Head(sweep.todo)
       IN  sweep' = [sweep EXCEPT
                        !.todo = Tail(@),
                        !.expired = IF Expired(sweep.current_time,
                                               other_drones[k].last_seen,
                                               expiry_timeout)
                                    THEN Append(@, k) ELSE @,
                        !.tmo = [j \in DOMAIN @ \cup {k} |->
                                    IF j = k THEN expiry_timeout ELSE @[j]]]
    /\ UNCHANGED << other_drones, now, expiry_timeout, other_drones_lock, ev,
                    removed, snapVars, droneUnchanged >>

\* the second loop deletes the expired entries, the lock is given back
SweepDelete ==
    /\ sweep.pc = "scan"
    /\ sweep.todo = << >>
    /\ other_drones' = [k \in DOMAIN other_drones \ Range(sweep.expired) |->
                           other_drones[k]]
    /\ other_drones_lock' = "free"
    /\ sweep' = IdleSweep
    /\ ev' = Event("sweep", None, sweep.current_time, other_drones, sweep.tmo)
    /\ removed' = removed \cup Range(sweep.expired)
    /\ alias' = alias \ Range(sweep.expired)
    /\ UNCHANGED << now, expiry_timeout, snapshot, droneUnchanged >>

Init ==
    /\ CodecIdle
    /\ LinkIdle
    /\ serial_in = << >>
    /\ stream = << >>
    /\ SendIdle
    /\ DroneIdle

Next ==
    \/ \E pkt \in TelemetryPackets : HandleTelemetry(pkt)
    \/ \E pkt \in StatusPackets : HandleStatus(pkt)
    \/ Tick
    \/ \E timeout \in TimeoutArgs : SetExpiryTimeout(timeout)
    \/ SweepStart
    \/ SweepLock
    \/ SweepExamine
    \/ SweepDelete

Spec == Init /\ [][Next]_vars

\* C2: after a Telemetry packet from X was handled: if X is not this drone's id
\* the table has an entry for X with the packet's position and velocity,
\* last_seen the handling time and discovered_via TELEMETRY, and every other
\* entry is as before; if X is this drone's id the table is as before. This
\* drone's id is never a key of the table.
C2_Telemetry ==
    /\ OwnId \notin DOMAIN other_drones
    /\ ev.op = "telemetry" =>
          LET X == ev.packet.drone_id
          IN  IF X # OwnId
              THEN /\ DOMAIN other_drones = DOMAIN ev.before \cup {X}
                   /\ other_drones[X].drone_id = X
                   /\ other_drones[X].position.x = ev.packet.x
                   /\ other_drones[X].position.y = ev.packet.y
                   /\ other_drones[X].position.z = ev.packet.z
                   /\ other_drones[X].position.vx = ev.packet.vx
                   /\ other_drones[X].position.vy = ev.packet.vy
                   /\ other_drones[X].position.vz = ev.packet.vz
                   /\ other_drones[X].last_seen = ev.time
                   /\ other_drones[X].discovered_via = "telemetry"
                   /\ \A k \in DOMAIN ev.before \ {X} : other_drones[k] = ev.before[k]
              ELSE other_drones = ev.before

\* an entry for drone 7 was overwritten with a new position at a later time,
\* next to an entry for drone 9
C2_Witness ==
    /\ ev.op = "telemetry"
    /\ ev.packet.drone_id = 7
    /\ 7 \in DOMAIN ev.before
    /\ ev.before[7].position.x # other_drones[7].position.x
    /\ ev.before[7].last_seen < other_drones[7].last_seen
    /\ 9 \in DOMAIN other_drones

\* C3: after a Status packet from X was handled the table has the keys it had;
\* if X was present only the last_seen of its entry changed, to the handling
\* time; every other entry is as before.
C3_Status ==
    ev.op = "status" =>
        /\ DOMAIN other_drones = DOMAIN ev.before
        /\ \A k \in DOMAIN ev.before :
              other_drones[k] =
                 IF k = ev.packet.drone_id
                 THEN [ev.before[k] EXCEPT !.last_seen = ev.time]
                 ELSE ev.before[k]

\* a Status packet from drone 7 moved the last_seen of its entry, drone 9
\* being in the table too
C3_Witness ==
    /\ ev.op = "status"
    /\ ev.packet.drone_id = 7
    /\ DOMAIN ev.before = {7, 9}
    /\ ev.before[7].last_seen < other_drones[7].last_seen
    /\ other_drones[7].position = ev.before[7].position

\* C4: a sweep that read the time `now` removes exactly the entries with
\* now - last_seen > expiry_timeout (the timeout as it was when the entry was
\* examined) and leaves the others as they were. With a timeout of 3.0 s an
\* entry last updated at 0 is there after a sweep at 2.9 s and gone after a
\* sweep at 3.1 s.
C4_Sweep ==
    ev.op = "sweep" =>
        /\ DOMAIN ev.tmo = DOMAIN ev.before
        /\ DOMAIN other_drones =
              {k \in DOMAIN ev.before :
                  ~(ev.time - ev.before[k].last_seen > ev.tmo[k])}
        /\ \A k \in DOMAIN other_drones : other_drones[k] = ev.before[k]
        /\ \A k \in DOMAIN ev.before :
              (ev.tmo[k] = 30 /\ ev.before[k].last_seen = 0) =>
                  /\ ev.time = 29 => k \in DOMAIN other_drones
                  /\ ev.time = 31 => k \notin DOMAIN other_drones

\* with a timeout of 3.0 s a sweep at 3.1 s removed the entry of drone 7, last
\* updated at 0, and kept the entry of drone 9, updated at 2.9 s
C4_Witness ==
    /\ ev.op = "sweep"
    /\ ev.time = 31
    /\ DOMAIN ev.before = {7, 9}
    /\ ev.tmo[7] = 30 /\ ev.tmo[9] = 30
    /\ ev.before[7].last_seen = 0
    /\ ev.before[9].last_seen = 29
    /\ DOMAIN other_drones = {9}

\* C5: an id the sweep removed is absent from the table as long as no
\* Telemetry packet with that id has been handled, whatever Status packets,
\* Telemetry packets of other ids and sweeps come.
C5_RemovedStaysAbsent ==
    \A X \in removed : X \notin DOMAIN other_drones

\* drone 7 was removed by a sweep and a Status packet from it has been handled
\* since, drone 9 being in the table
C5_Witness ==
    /\ 7 \in removed
    /\ 9 \in DOMAIN other_drones
    /\ ev.op = "status"
    /\ ev.packet.drone_id = 7
    /\ 7 \notin DOMAIN ev.before
    /\ 7 \notin DOMAIN other_drones

(***************************************************************************)
(* drone.py: wait_for_drones                                               *)
(***************************************************************************)
\* time.sleep(0.5) of the polling loop, in tenths of a second
PollInterval == 5

\* the clock of the runs with wait_for_drones stops here
MaxWaitClock == 25

\* the arguments wait_for_drones is called with: timeouts of 0 s, 1.0 s and 1.2 s
WaitCounts == {0, 1, 2}
WaitTimeouts == {0, 10, 12}

\* the packets that arrive while the call waits: one peer is in range
WaitTelemetry == {TelemetryPacket(7, 0, 0, One, -One, 0, 0)}
WaitStatus == {StatusPacket(7, 0, 4200, 0)}

\* set_drone_expiry_timeout(0.5) is called during the wait
WaitExpiryArgs == {5}

\* "if elapsed > timeout"
TimedOut_never(elapsed, timeout) == FALSE

TimedOut(elapsed, timeout) == elapsed > timeout

\* "if int(elapsed) % 10 == 0 and elapsed > 0"
LogsProgress(elapsed) == (elapsed \div 10) % 10 = 0 /\ elapsed > 0

\* a read of len(self._other_drones) outside "with self._other_drones_lock"
Unlocked(by, line) == [by |-> by, line |-> line]

WaitReturned(w, ret) == [w EXCEPT !.pc = "returned", !.ret = ret, !.returned_at = now]

waitUnchanged == << codecVars, linkVars, sendVars, snapVars, navVars, lifeVars >>

\* wait_for_drones(n, timeout) is called: n <= 0 returns True at once,
\* otherwise start_time is read
WaitCall(n, timeout) ==
    /\ waiter.pc = "idle"
    /\ now + Max(timeout, 12) + 2 * PollInterval <= MaxWaitClock
    /\ LET w == [waiter EXCEPT !.n = n, !.timeout = timeout, !.start_time = now]
       IN  waiter' = IF n <= 0 THEN WaitReturned(w, TRUE)
                     ELSE [w EXCEPT !.pc = "test"]
    /\ UNCHANGED << running, unlocked_access, droneVars, waitUnchanged >>

\* "while len(self._other_drones) < n and self.running": the table is read
\* without its lock
WaitTest ==
    /\ waiter.pc = "test"
    /\ LET count == Cardinality(DOMAIN other_drones)
       IN  waiter' = IF count < waiter.n /\ running
                     THEN [waiter EXCEPT !.pc = "sleep", !.saw = count,
                                         !.wake = now + PollInterval]
                     ELSE [waiter EXCEPT !.pc = "after", !.saw = count]
    /\ unlocked_access' = unlocked_access \cup {Unlocked("wait_for_drones", 628)}
    /\ UNCHANGED << running, droneVars, waitUnchanged >>

\* time.sleep(0.5) is over: elapsed is computed and compared with the timeout
WaitWake ==
    /\ waiter.pc = "sleep"
    /\ now >= waiter.wake
    /\ LET elapsed == now - waiter.start_time
           w == [waiter EXCEPT !.elapsed = elapsed]
       IN  /\ waiter' = IF TimedOut(elapsed, waiter.timeout) THEN WaitReturned(w, FALSE)
                        ELSE IF LogsProgress(elapsed) THEN [w EXCEPT !.pc = "log"]
                        ELSE [w EXCEPT !.pc = "test"]
           /\ unlocked_access' =
                 IF TimedOut(elapsed, waiter.timeout)
                 THEN unlocked_access \cup {Unlocked("wait_for_drones", 634)}
                 ELSE unlocked_access
    /\ UNCHANGED << running, droneVars, waitUnchanged >>

\* the progress message: the keys are listed under the lock, the length is
\* read again after the lock was given back
WaitLog ==
    /\ waiter.pc = "log"
    /\ other_drones_lock = "free"
    /\ waiter' = [waiter EXCEPT !.pc = "test"]
    /\ unlocked_access' = unlocked_access \cup {Unlocked("wait_for_drones", 643)}
    /\ UNCHANGED << running, droneVars, waitUnchanged >>

\* after the loop: "if len(self._other_drones) >= n", read without the lock
WaitAfter ==
    /\ waiter.pc = "after"
    /\ waiter' = IF Cardinality(DOMAIN other_drones) >= waiter.n
                 THEN [waiter EXCEPT !.pc = "found"]
                 ELSE WaitReturned(waiter, FALSE)
    /\ unlocked_access' = unlocked_access \cup {Unlocked("wait_for_drones", 646)}
    /\ UNCHANGED << running, droneVars, waitUnchanged >>

\* the keys are listed under the lock and True is returned
WaitFound ==
    /\ waiter.pc = "found"
    /\ other_drones_lock = "free"
    /\ waiter' = WaitReturned(waiter, TRUE)
    /\ UNCHANGED << running, unlocked_access, droneVars, waitUnchanged >>

WaitStep == WaitTest \/ WaitWake \/ WaitLog \/ WaitAfter \/ WaitFound

\* Drone.stop(), from another thread
Stop ==
    /\ running
    /\ running' = FALSE
    /\ UNCHANGED << waiter, unlocked_access, droneVars, waitUnchanged >>

\* Half a second passes. The steps of a thread take no time: time passes when
\* the caller sleeps or is outside the call, and the sweep is not under way.
Elapse ==
    /\ now + PollInterval <= MaxWaitClock
    /\ waiter.pc \in {"idle", "sleep", "returned"}
    /\ waiter.pc = "sleep" => now < waiter.wake
    /\ sweep.pc = "idle"
    /\ now' = now + PollInterval
    /\ ev' = Event("tick", None, now', other_drones, NoDrones)
    /\ UNCHANGED << other_drones, expiry_timeout, sweep, other_drones_lock,
                    removed, snapVars, droneUnchanged >>

SweepStep == SweepLock \/ SweepExamine \/ SweepDelete

InitWait == Init

NextWait ==
    \/ \E n \in WaitCounts, timeout \in WaitTimeouts : WaitCall(n, timeout)
    \/ WaitTest
    \/ WaitWake
    \/ WaitLog
    \/ WaitAfter
    \/ WaitFound
    \/ Stop
    \/ Elapse
    \/ \E pkt \in WaitTelemetry : HandleTelemetry(pkt)
    \/ \E pkt \in WaitStatus : HandleStatus(pkt)
    \/ \E timeout \in WaitExpiryArgs : SetExpiryTimeout(timeout)
    \/ SweepStart
    \/ SweepLock
    \/ SweepExamine
    \/ SweepDelete

SpecWait == InitWait /\ [][NextWait]_vars

\* The same runs under a fair scheduler: a thread that can take a step takes
\* it, the lock is not kept from a thread that asks for it again and again,
\* and the clock goes on.
SpecWaitFair ==
    /\ SpecWait
    /\ SF_vars(WaitStep)
    /\ SF_vars(SweepStep)
    /\ SF_vars(Elapse)

WaitReturnedIn == waiter.returned_at - waiter.start_time

\* C13: a call with n > 0 that has returned False returned more than
\* `timeout` after it was made, and a call whose poll saw at least n entries
\* has returned True.
C13_WaitResult ==
    (waiter.pc = "returned" /\ waiter.n > 0) =>
        /\ waiter.ret = FALSE => WaitReturnedIn > waiter.timeout
        /\ waiter.saw >= waiter.n => waiter.ret = TRUE

\* C14: a call of wait_for_drones returns, and it is never inside the call
\* later than one poll interval after the timeout; wait_for_drones(2, 1.0) on a
\* drone that stays running and never knows two peers returns False between
\* 1.0 s and 1.5 s after the call.
C14_Returns ==
    /\ [](waiter.pc # "idle" =>
            (IF waiter.pc = "returned" THEN waiter.returned_at ELSE now)
                - waiter.start_time <= waiter.timeout + PollInterval)
    /\ [](waiter.pc = "returned" /\ waiter.n = 2 /\ waiter.timeout = 10 /\ running =>
            /\ waiter.ret = FALSE
            /\ WaitReturnedIn \in 10..(10 + PollInterval))
    /\ (waiter.pc # "idle") ~> (waiter.pc = "returned")

\* wait_for_drones(2, 1.0) has returned False after 1.5 s, no peer being known
\* and the drone running
C14_Witness ==
    /\ waiter.pc = "returned"
    /\ waiter.n = 2
    /\ waiter.timeout = 10
    /\ waiter.ret = FALSE
    /\ WaitReturnedIn = 10 + PollInterval
    /\ other_drones = NoDrones
    /\ running

\* C15: no thread reads or writes _other_drones without holding
\* _other_drones_lock.
C15_LockedAccess == unlocked_access = {}

(***************************************************************************)
(* collision_avoidance/force_avoidance.py                                  *)
(*                                                                         *)
(* Lengths are integers in millimetres, speeds in mm/s, accelerations in   *)
(* mm/s^2, forces in thousandths, factors in thousandths and dt in         *)
(* milliseconds. Every operation rounds towards zero to that grid. A float *)
(* that is not a number is the value NaN; it goes through the arithmetic   *)
(* and fails every comparison, as in the code.                             *)
(***************************************************************************)
COLLISION_RADIUS == 150
MAX_SPEED == 1500
MAX_ACCELERATION == 3000
ATTRACTION_STRENGTH == 50
ARRIVAL_RADIUS == 750
TARGET_THRESHOLD == 200
TARGET_SPEED_THRESHOLD == 100
BASE_DAMPING == 100
FORCE_DAMPING_FACTOR == 50
MAX_DAMPING == 250

\* a / b for b > 0, rounded towards zero
Trunc(a, b) == IF a >= 0 THEN a \div b ELSE -((-a) \div b)

\* a * b / c, rounded towards zero
RECURSIVE MulDiv(_, _, _)
MulDiv(a, b, c) ==
    IF Abs(a) > 500000 THEN 32 * MulDiv(Trunc(a, 32), b, c)
    ELSE IF (a * b >= 0) = (c > 0) THEN Abs(a * b) \div Abs(c)
    ELSE -(Abs(a * b) \div Abs(c))

\* math.sqrt
RECURSIVE IsqrtBetween(_, _, _)
IsqrtBetween(n, lo, hi) ==
    IF lo >= hi THEN lo
    ELSE LET mid == (lo + hi + 1) \div 2
         IN  IF mid * mid <= n THEN IsqrtBetween(n, mid, hi)
             ELSE IsqrtBetween(n, lo, mid - 1)

Isqrt(n) == IsqrtBetween(n, 0, 46340)

\* math.sqrt(x**2 + y**2)
RECURSIVE Hypot(_, _)
Hypot(x, y) ==
    IF Max(Abs(x), Abs(y)) > 32767 THEN 32 * Hypot(Trunc(x, 32), Trunc(y, 32))
    ELSE Isqrt(x * x + y * y)

Min(a, b) == IF a <= b THEN a ELSE b

\* a float of the packet codec (m stands for m * 2^-FloatFrac) in thousandths
Milli(m) == IF IsNaN(m) THEN NaN ELSE Trunc(Trunc(m, One \div 1024) * 1000, 1024)

\* REPULSION_STRENGTH * math.exp(-((d - 1) ** FORCE_EXPONENT)) for
\* d = distance / COLLISION_RADIUS, tabulated every 25 mm
RepulsionTable ==
    150 :> 5000000 @@ 175 :> 4641415 @@ 200 :> 4080096 @@ 225 :> 3467439 @@
    250 :> 2868986 @@ 275 :> 2320413 @@ 300 :> 1839397 @@ 325 :> 1431852 @@
    350 :> 1096172 @@ 375 :> 826289 @@ 400 :> 613877 @@ 425 :> 449866 @@
    450 :> 325418 @@ 475 :> 232499 @@ 500 :> 164155 @@ 525 :> 114589 @@
    550 :> 79118 @@ 575 :> 54053 @@ 600 :> 36553 @@ 625 :> 24475 @@
    650 :> 16231 @@ 675 :> 10663 @@ 700 :> 6942 @@ 725 :> 4480 @@
    750 :> 2866 @@ 775 :> 1818 @@ 800 :> 1143 @@ 825 :> 713 @@ 850 :> 441 @@
    875 :> 271 @@ 900 :> 165 @@ 925 :> 100 @@ 950 :> 60 @@ 975 :> 35 @@
    1000 :> 21 @@ 1025 :> 12 @@ 1050 :> 7 @@ 1075 :> 4 @@ 1100 :> 2 @@
    1125 :> 1 @@ 1150 :> 0 @@ 1175 :> 0 @@ 1200 :> 0 @@ 1225 :> 0 @@
    1250 :> 0 @@ 1275 :> 0 @@ 1300 :> 0 @@ 1325 :> 0 @@ 1350 :> 0 @@
    1375 :> 0 @@ 1400 :> 0 @@ 1425 :> 0 @@ 1450 :> 0 @@ 1475 :> 0

\* ForceCollisionAvoidance.calculate_repulsion_force
calculate_repulsion_force(distance) ==
    IF distance >= COLLISION_RADIUS * 10 THEN 0
    ELSE IF distance < COLLISION_RADIUS THEN 0
    ELSE RepulsionTable[distance - (distance % 25)]

\* the x, y of a DronePosition with its velocity, in the units of the law
Pose(x, y, vx, vy) == [x |-> x, y |-> y, vx |-> vx, vy |-> vy]

PoseOf(position) ==
    Pose(Milli(position.x), Milli(position.y), Milli(position.vx), Milli(position.vy))

\* the end of a round of the loop over other_drones: the force along the
\* unit vector (ux, uy), and against the relative velocity when the drones
\* get closer
RepulsionAlong(force, ux, uy, rel_vx, rel_vy, closing) ==
    IF force = 0 THEN << 0, 0 >>
    ELSE << MulDiv(force, ux, 1000) - (IF closing THEN MulDiv(force, rel_vx, 10000) ELSE 0),
            MulDiv(force, uy, 1000) - (IF closing THEN MulDiv(force, rel_vy, 10000) ELSE 0) >>

\* calculate_repulsion_force(distance) * distance_factor
RepulsionForce(distance, future_distance) ==
    IF future_distance < distance
    THEN MulDiv(calculate_repulsion_force(distance), distance,
                Max(future_distance, COLLISION_RADIUS \div 10))
    ELSE calculate_repulsion_force(distance)

\* "if distance > 0: dx /= distance"
Normalized(d, distance) == IF distance > 0 THEN MulDiv(d, 1000, distance) ELSE d

RepulsionAt(my_pos, other_pos, dx, dy, distance, future_distance) ==
    RepulsionAlong(RepulsionForce(distance, future_distance),
                   Normalized(dx, distance), Normalized(dy, distance),
                   my_pos.vx - other_pos.vx, my_pos.vy - other_pos.vy,
                   future_distance < distance)

\* one round of the loop over other_drones: what the peer adds to (fx, fy)
Repulsion(my_pos, other_pos, dt) ==
    RepulsionAt(my_pos, other_pos,
                my_pos.x - other_pos.x, my_pos.y - other_pos.y,
                Hypot(my_pos.x - other_pos.x, my_pos.y - other_pos.y),
                Hypot((my_pos.x + MulDiv(my_pos.vx, dt, 1000))
                         - (other_pos.x + MulDiv(other_pos.vx, dt, 1000)),
                      (my_pos.y + MulDiv(my_pos.vy, dt, 1000))
                         - (other_pos.y + MulDiv(other_pos.vy, dt, 1000))))

\* fx += ...; fy += ...
AddTo(f, sum) == << f[1] + sum[1], f[2] + sum[2] >>

\* the loop over other_drones.items()
RECURSIVE RepulsionSum(_, _, _, _)
RepulsionSum(ids, my_pos, other_drones_copy, dt) ==
    IF ids = {} THEN << 0, 0 >>
    ELSE AddTo(Repulsion(my_pos,
                         PoseOf(other_drones_copy[CHOOSE id \in ids : TRUE].position),
                         dt),
               RepulsionSum(ids \ {CHOOSE id \in ids : TRUE}, my_pos,
                            other_drones_copy, dt))

\* "if dist_to_target > self.ARRIVAL_RADIUS": the magnitude is clamped
Clamped(d, dist_to_target) ==
    IF dist_to_target > ARRIVAL_RADIUS THEN MulDiv(d, ARRIVAL_RADIUS, dist_to_target)
    ELSE d

\* attraction_mult, which decreases within APPROACH_RADIUS = ARRIVAL_RADIUS * 1.5
attraction_mult(dist_to_target) ==
    IF dist_to_target < (ARRIVAL_RADIUS * 3) \div 2
    THEN ATTRACTION_STRENGTH
            * Max(100, MulDiv(dist_to_target, 1000, (ARRIVAL_RADIUS * 3) \div 2))
    ELSE ATTRACTION_STRENGTH * 1000

\* the attraction to the target
Attraction(dx_target, dy_target, dist_to_target) ==
    << MulDiv(Clamped(dx_target, dist_to_target), attraction_mult(dist_to_target), 1000),
       MulDiv(Clamped(dy_target, dist_to_target), attraction_mult(dist_to_target), 1000) >>

\* what a call of get_avoidance_vector did: where it started, whether it raised, the
\* velocity it returned and stored, and the distance and speed it compared
\* with the arrival thresholds
LawResult(prev, dt, raised, out, dist_to_target, velocity) ==
    [called |-> TRUE, prev |-> prev, dt |-> dt, raised |-> raised, out |-> out,
     dist_to_target |-> dist_to_target, velocity |-> velocity]

\* the end of get_avoidance_vector: "if velocity > MAX_SPEED" scales the
\* velocity down
SpeedLimited_not(vx, vy, velocity) == << vx, vy >>

SpeedLimited(vx, vy, velocity) ==
    IF velocity > MAX_SPEED
    THEN << MulDiv(vx, MAX_SPEED, velocity), MulDiv(vy, MAX_SPEED, velocity) >>
    ELSE << vx, vy >>

\* "if acceleration > MAX_ACCELERATION" scales the acceleration down
AccelerationLimited_not(ax, ay, acceleration) == << ax, ay >>

AccelerationLimited(ax, ay, acceleration) ==
    IF acceleration > MAX_ACCELERATION
    THEN << MulDiv(ax, MAX_ACCELERATION, acceleration),
            MulDiv(ay, MAX_ACCELERATION, acceleration) >>
    ELSE << ax, ay >>

\* the arrival snap
Arrived_never(velocity, dist_to_target) == FALSE

Arrived(velocity, dist_to_target) ==
    velocity < TARGET_SPEED_THRESHOLD /\ dist_to_target < TARGET_THRESHOLD

\* damping = min(BASE_DAMPING + total_force * FORCE_DAMPING_FACTOR, MAX_DAMPING)
Damping(total_force) ==
    Min(BASE_DAMPING + MulDiv(total_force, FORCE_DAMPING_FACTOR, 1000), MAX_DAMPING)

\* desired_vx = prev_vx * damping + fx * (1 - damping)
Desired(prev_v, f, damping) ==
    MulDiv(prev_v, damping, 1000) + MulDiv(f, 1000 - damping, 1000)

\* the velocity is known: the speed limit, the arrival snap, the return
FromVelocity(prev, dt, vx, vy, velocity, dist_to_target) ==
    LawResult(prev, dt, FALSE,
              IF Arrived(velocity, dist_to_target) THEN << 0, 0, 0 >>
              ELSE SpeedLimited(vx, vy, velocity) \o << 0 >>,
              dist_to_target, velocity)

\* the limited acceleration a is known: vx = prev_vx + ax * dt
FromAcceleration(prev, dt, a, dist_to_target) ==
    FromVelocity(prev, dt,
                 prev[1] + MulDiv(a[1], dt, 1000), prev[2] + MulDiv(a[2], dt, 1000),
                 Hypot(prev[1] + MulDiv(a[1], dt, 1000), prev[2] + MulDiv(a[2], dt, 1000)),
                 dist_to_target)

\* the desired velocity is known: ax = (desired_vx - prev_vx) / dt
FromDesired(prev, dt, desired_vx, desired_vy, dist_to_target) ==
    FromAcceleration(prev, dt,
                     AccelerationLimited(
                        MulDiv(desired_vx - prev[1], 1000, dt),
                        MulDiv(desired_vy - prev[2], 1000, dt),
                        Hypot(MulDiv(desired_vx - prev[1], 1000, dt),
                              MulDiv(desired_vy - prev[2], 1000, dt))),
                     dist_to_target)

\* the total force (fx, fy) is known
FromForce(prev, dt, fx, fy, damping, dist_to_target) ==
    FromDesired(prev, dt, Desired(prev[1], fx, damping), Desired(prev[2], fy, damping),
                dist_to_target)

\* the repulsion and the attraction are known
FromForces(prev, dt, rep, attr, dist_to_target) ==
    FromForce(prev, dt, rep[1] + attr[1], rep[2] + attr[2],
              Damping(Hypot(rep[1] + attr[1], rep[2] + attr[2])), dist_to_target)

\* the vector to the target is known
FromTarget(prev, my_pos, other_drones_copy, dt, dx_target, dy_target, dist_to_target) ==
    FromForces(prev, dt,
               RepulsionSum(DOMAIN other_drones_copy, my_pos, other_drones_copy, dt),
               Attraction(dx_target, dy_target, dist_to_target),
               dist_to_target)

\* ForceCollisionAvoidance.get_avoidance_vector(my_pos, target_pos,
\* other_drones, dt) with self._previous_velocity = prev. dt = 0 raises
\* ZeroDivisionError; a position that is not a number makes every force, the
\* velocity and both comparisons of the limits not a number.
get_avoidance_vector(prev, my_pos, target_pos, other_drones_copy, dt) ==
    IF dt = 0
    THEN LawResult(prev, dt, TRUE, prev, 0, 0)
    ELSE IF \/ IsNaN(prev[1]) \/ IsNaN(prev[2])
            \/ IsNaN(my_pos.x) \/ IsNaN(my_pos.y)
            \/ IsNaN(target_pos.x) \/ IsNaN(target_pos.y)
            \/ \E k \in DOMAIN other_drones_copy :
                  \/ IsNaN(other_drones_copy[k].position.x)
                  \/ IsNaN(other_drones_copy[k].position.y)
    THEN LawResult(prev, dt, FALSE, << NaN, NaN, 0 >>, NaN, NaN)
    ELSE FromTarget(prev, my_pos, other_drones_copy, dt,
                    target_pos.x - my_pos.x, target_pos.y - my_pos.y,
                    Hypot(target_pos.x - my_pos.x, target_pos.y - my_pos.y))

(***************************************************************************)
(* drone.py: navigate_with_avoidance                                       *)
(***************************************************************************)
\* target_dt = 1.0 / rate_hz, in tenths of a second and in milliseconds
TargetDt == 1
TargetDtMs == 100

\* the clock stops this many ticks after the call
MaxNavTicks == 4

\* the time that may pass before the call is made
Before == 60

\* the arguments of the call: the target (2.0, 0.0), a timeout of 0.2 s
NavTarget == Pose(2000, 0, 0, 0)
NavTimeouts == {2}

\* what get_telemetry reports in a tick: far from the target, 7.6 cm from it
\* and at it
OwnPoses == {Pose(0, 0, 0, 0), Pose(1924, 0, 300, 0), Pose(2000, 0, 0, 0)}
TelemetryOutcomes ==
    {[kind |-> "raises"], [kind |-> "nan"]}
        \cup {[kind |-> "pose", pose |-> p] : p \in OwnPoses}

\* the Telemetry and Status packets of the peer: at (0, 0.625) flying towards
\* the origin, and with a position that is not a number
NavTelemetry ==
    {TelemetryPacket(9, 0, (5 * One) \div 8, One, 0, -One, 0),
     TelemetryPacket(9, NaN, 0, One, 0, 0, 0)}
NavStatus == {StatusPacket(9, 0, 4200, 0)}

\* a return of navigate_with_avoidance: its local variables are gone
NavReturned(nv, ret) ==
    [nv EXCEPT !.pc = "returned", !.ret = ret, !.returned_at = now,
               !.copied = NoDrones]

navUnchanged == << codecVars, linkVars, sendVars, droneVars, waitVars, lifeVars >>

\* the call: the avoidance object is made, the services are resolved; a
\* service that cannot be resolved raises, which returns False
NavCall(timeout, perpetual, resolved) ==
    /\ nav.pc = "idle"
    /\ LET nv == [nav EXCEPT !.timeout = timeout, !.perpetual = perpetual,
                             !.time_start = now]
       IN  nav' = IF resolved THEN [nv EXCEPT !.pc = "loop"]
                  ELSE NavReturned(nv, FALSE)
    /\ previous_velocity' = ZeroVelocity
    /\ UNCHANGED << law, snapVars, navUnchanged >>

\* "while self.running" and the telemetry call of the tick: a call that
\* raises and a pose with NaN sleep and go on with the next round
NavTelemetryStep(outcome) ==
    /\ nav.pc = "loop"
    /\ IF ~running
       THEN /\ nav' = NavReturned(nav, TRUE)
            /\ snapshot' = NoDrones
            /\ alias' = {}
       ELSE /\ nav' = IF outcome.kind \in {"raises", "nan"}
                      THEN [nav EXCEPT !.pc = "sleep", !.skipped = TRUE,
                                       !.wake = now + TargetDt]
                      ELSE [nav EXCEPT !.pc = "copy", !.current_pos = outcome.pose]
            /\ UNCHANGED snapVars
    /\ UNCHANGED << previous_velocity, law, navUnchanged >>

\* "with self._other_drones_lock: other_drones = self._other_drones.copy()":
\* a new dict that holds the table's own DroneInfo objects
NavCopy ==
    /\ nav.pc = "copy"
    /\ other_drones_lock = "free"
    /\ snapshot' = other_drones
    /\ alias' = DOMAIN other_drones
    /\ nav' = [nav EXCEPT !.pc = "law", !.copied = other_drones]
    /\ UNCHANGED << previous_velocity, law, navUnchanged >>

\* get_avoidance_vector is called with the copy, the arrival test, the
\* set_position call (which may raise) and the start of the sleep
NavLaw(set_position_ok) ==
    /\ nav.pc = "law"
    /\ LET r == get_avoidance_vector(previous_velocity, nav.current_pos, NavTarget,
                                     snapshot, TargetDtMs)
       IN  /\ law' = r
           /\ previous_velocity' = r.out
           /\ IF ~nav.perpetual /\ r.out = << 0, 0, 0 >>
              THEN /\ nav' = NavReturned([nav EXCEPT !.arrived = TRUE], TRUE)
                   /\ snapshot' = NoDrones
                   /\ alias' = {}
              ELSE IF ~set_position_ok
              THEN /\ nav' = NavReturned(nav, FALSE)
                   /\ snapshot' = NoDrones
                   /\ alias' = {}
              ELSE /\ nav' = [nav EXCEPT !.pc = "sleep", !.skipped = FALSE,
                                         !.wake = now + TargetDt]
                   /\ UNCHANGED snapVars
    /\ UNCHANGED navUnchanged

\* time.sleep(target_dt) is over; at the end of a round that got as far as
\* set_position the time is compared with the timeout
NavWake ==
    /\ nav.pc = "sleep"
    /\ now >= nav.wake
    /\ IF ~nav.skipped /\ nav.timeout # 0 /\ now - nav.time_start > nav.timeout
       THEN /\ nav' = NavReturned(nav, FALSE)
            /\ snapshot' = NoDrones
            /\ alias' = {}
       ELSE /\ nav' = [nav EXCEPT !.pc = "loop"]
            /\ UNCHANGED snapVars
    /\ UNCHANGED << previous_velocity, law, navUnchanged >>

\* a tenth of a second passes while the loop sleeps
NavElapse ==
    /\ nav.pc = "sleep"
    /\ now < nav.wake
    /\ now + TargetDt <= nav.time_start + MaxNavTicks * TargetDt
    /\ now' = now + TargetDt
    /\ sweep.pc = "idle"
    /\ ev' = Event("tick", None, now', other_drones, NoDrones)
    /\ UNCHANGED << other_drones, expiry_timeout, sweep, other_drones_lock,
                    removed, snapVars, droneUnchanged >>

\* six seconds pass before the call is made
ElapseBefore ==
    /\ nav.pc = "idle"
    /\ now = 0
    /\ now' = Before
    /\ sweep.pc = "idle"
    /\ ev' = Event("tick", None, now', other_drones, NoDrones)
    /\ UNCHANGED << other_drones, expiry_timeout, sweep, other_drones_lock,
                    removed, snapVars, droneUnchanged >>

InitNav == Init

NextNav ==
    \/ \E timeout \in NavTimeouts, perpetual, resolved \in BOOLEAN :
          NavCall(timeout, perpetual, resolved)
    \/ \E outcome \in TelemetryOutcomes : NavTelemetryStep(outcome)
    \/ NavCopy
    \/ \E set_position_ok \in BOOLEAN : NavLaw(set_position_ok)
    \/ NavWake
    \/ Stop
    \/ NavElapse
    \/ \E pkt \in NavTelemetry : HandleTelemetry(pkt)

SpecNav == InitNav /\ [][NextNav]_vars

(***************************************************************************)
(* get_avoidance_vector called tick after tick on one avoidance object     *)
(***************************************************************************)
\* the number of calls made on the object
MaxLawTicks == 6

\* the copies of the presence table the law is given: no peer, the peer at
\* (0, 0.625), the peer with a position that is not a number
LawPeers == {NoDrones} \cup {handle_telemetry_packet(NoDrones, pkt, 0) : pkt \in NavTelemetry}

\* dt: the 0.1 s of the loop, and 0
LawDts == {TargetDtMs, 0}

\* one call; the clock counts the calls
LawTick(my_pos, other_drones_copy, dt) ==
    /\ now < MaxLawTicks
    /\ now' = now + 1
    /\ law' = get_avoidance_vector(previous_velocity, my_pos, NavTarget,
                                   other_drones_copy, dt)
    /\ previous_velocity' = IF law'.raised THEN previous_velocity ELSE law'.out
    /\ UNCHANGED << other_drones, expiry_timeout, sweep, other_drones_lock, ev, removed,
                    nav, snapVars, waitVars, lifeVars, codecVars, linkVars, sendVars >>

InitLaw == Init

NextLaw ==
    \E my_pos \in OwnPoses, other_drones_copy \in LawPeers, dt \in LawDts :
        LawTick(my_pos, other_drones_copy, dt)

SpecLaw == InitLaw /\ [][NextLaw]_vars

(***************************************************************************)
(* the navigation loop next to the packet handlers and the expiry sweep    *)
(***************************************************************************)
\* the peer's Telemetry; get_telemetry fails or reports the pose far from
\* the target
SnapTelemetry == {TelemetryPacket(9, 0, (5 * One) \div 8, One, 0, -One, 0)}
SnapOutcomes == {[kind |-> "raises"], [kind |-> "pose", pose |-> Pose(0, 0, 0, 0)]}

InitSnap == Init

NextSnap ==
    \/ \E timeout \in NavTimeouts, perpetual \in BOOLEAN : NavCall(timeout, perpetual, TRUE)
    \/ \E outcome \in SnapOutcomes : NavTelemetryStep(outcome)
    \/ NavCopy
    \/ NavLaw(TRUE)
    \/ NavWake
    \/ NavElapse
    \/ ElapseBefore
    \/ \E pkt \in SnapTelemetry : HandleTelemetry(pkt)
    \/ \E pkt \in NavStatus : HandleStatus(pkt)
    \/ SweepStart
    \/ SweepLock
    \/ SweepExamine
    \/ SweepDelete

SpecSnap == InitSnap /\ [][NextSnap]_vars

NavInCall == nav.pc \notin {"idle", "returned"}

\* C11: a call of navigate_with_avoidance with a positive timeout on a running
\* drone is over one tick after the timeout at the latest: it is never still
\* inside its loop later than that, whatever the telemetry source did in each
\* tick.
C11_TimesOut ==
    (NavInCall /\ nav.timeout > 0 /\ running) =>
        now - nav.time_start <= nav.timeout + TargetDt

\* C12: a call with perpetual=False that has returned has returned True if the
\* control law returned (0, 0, 0) in one of its ticks, and False otherwise.
C12_TrueOnlyOnArrival ==
    (nav.pc = "returned" /\ ~nav.perpetual) => (nav.ret = TRUE <=> nav.arrived)

\* the planar magnitude of the velocity v is a number and at most limit
WithinMagnitude(vx, vy, limit) ==
    /\ ~IsNaN(vx)
    /\ ~IsNaN(vy)
    /\ Hypot(vx, vy) <= limit

\* C17: the velocity get_avoidance_vector returned, which is the previous
\* velocity it stored, has a planar magnitude of at most MAX_SPEED.
C17_SpeedBounded ==
    (law.called /\ ~law.raised) =>
        /\ WithinMagnitude(law.out[1], law.out[2], MAX_SPEED)
        /\ previous_velocity = law.out

\* C18: the velocity get_avoidance_vector returned differs from the previous
\* velocity it started from by at most MAX_ACCELERATION * dt.
C18_AccelerationBounded ==
    (law.called /\ ~law.raised) =>
        /\ ~IsNaN(law.prev[1])
        /\ ~IsNaN(law.prev[2])
        /\ WithinMagnitude(law.out[1] - law.prev[1], law.out[2] - law.prev[2],
                           MulDiv(MAX_ACCELERATION, law.dt, 1000))

\* C19: every velocity get_avoidance_vector returned has the vertical
\* component 0; when the distance to the target was below TARGET_THRESHOLD and
\* the speed computed in the call below TARGET_SPEED_THRESHOLD, the velocity
\* returned and the previous velocity stored are (0, 0, 0).
C19_ArrivalSnap ==
    (law.called /\ ~law.raised) =>
        /\ law.out[3] = 0
        /\ (/\ ~IsNaN(law.dist_to_target)
            /\ ~IsNaN(law.velocity)
            /\ law.dist_to_target < TARGET_THRESHOLD
            /\ law.velocity < TARGET_SPEED_THRESHOLD) =>
              /\ law.out = << 0, 0, 0 >>
              /\ previous_velocity = << 0, 0, 0 >>

\* the law was called at the target with a previous velocity of 0.369 m/s,
\* computed a speed of 0.069 m/s and returned (0, 0, 0)
C19_Witness ==
    /\ law.called
    /\ ~law.raised
    /\ law.dist_to_target = 0
    /\ law.prev = << 369, 0, 0 >>
    /\ law.velocity = 69
    /\ law.out = << 0, 0, 0 >>
    /\ previous_velocity = << 0, 0, 0 >>

\* C16: what the navigation loop sees through the copy of the presence table
\* it took is what the table held when the copy was made, until the loop
\* takes the next copy or the call returns.
C16_SnapshotFrozen == NavInCall => snapshot = nav.copied

(***************************************************************************)
(* drone.py, link.py: the timer chains, the reader loop and Drone.stop()   *)
(***************************************************************************)
\* while the drone is running the clock of these runs stops here
MaxLifeClock == 30

\* what the get_telemetry service gives _broadcast_telemetry in one tick
Telem(x, y, z, vx, vy, vz) ==
    [kind |-> "values", x |-> x, y |-> y, z |-> z, vx |-> vx, vy |-> vy, vz |-> vz]

\* the call raises; all values are numbers; x is NaN; only z is NaN
BroadcastOutcomes ==
    {[kind |-> "raises"], Telem(One, 0, One, 0, -One, 0),
     Telem(NaN, 0, One, 0, 0, 0), Telem(One, 0, NaN, 0, 0, 0)}

\* every background loop goes on whatever the flag says
KeepsGoing_always(flag) == TRUE

\* "if not self.running: return", "if self.running:", "while self.running:"
KeepsGoing(flag) == flag

\* the test of _broadcast_telemetry that makes it return without sending
SkipsTick(telem) ==
    IsNaN(telem.x) \/ IsNaN(telem.y) \/ IsNaN(telem.vx) \/ IsNaN(telem.vy)

\* the timer's thread calls the callback
Fired(timer) == [timer EXCEPT !.pc = "enter", !.fired_running = running]

\* the callback's first test of the flag
Entered(timer) ==
    [timer EXCEPT !.pc = IF KeepsGoing(running) THEN "run" ELSE "ended"]

\* the callback's second test of the flag, before it makes the next timer
Rescheduling(timer) ==
    [timer EXCEPT !.pc = IF KeepsGoing(running) THEN "arm" ELSE "ended"]

\* Timer.cancel(): a timer that has not fired yet never will
Cancelled(timer) ==
    IF timer.pc = "armed" THEN [timer EXCEPT !.pc = "cancelled"] ELSE timer

\* a callback of the chain is between its first test and its return
InFlight(timer) == timer.pc \in {"enter", "run", "sweep", "after", "arm"}

\* the chain has ended: no timer is waiting and no callback is running
Ceased(timer) == timer.pc \in {"cancelled", "ended"}

lifeUnchanged ==
    << codecVars, waitVars, snapVars, navVars, timeout_arg, sysVars, serial_in, rx_buffer,
       delivered, sent_by_reader, stream, senders, send_lock >>

TelemetryFire ==
    /\ telemetry_timer.pc = "armed"
    /\ now >= telemetry_timer.fire_at
    /\ telemetry_timer' = Fired(telemetry_timer)
    /\ UNCHANGED << stats, serial_out, is_open, link_running, cleanup_timer,
                    stopping, broadcast, reader, droneVars, lifeUnchanged >>

\* _start_telemetry_timer, lines 136-137
TelemetryEnter ==
    /\ telemetry_timer.pc = "enter"
    /\ telemetry_timer' = Entered(telemetry_timer)
    /\ UNCHANGED << stats, serial_out, is_open, link_running, cleanup_timer,
                    stopping, broadcast, reader, droneVars, lifeUnchanged >>

\* _broadcast_telemetry as the callback runs it: the service is asked; values
\* that pass the test are given to link.send_telemetry, whose send_packet
\* writes the frame when the port is open and takes it
TelemetryBroadcast(telem, write_ok) ==
    /\ telemetry_timer.pc = "run"
    /\ send_lock = "free"
    /\ LET sends == telem.kind = "values" /\ ~SkipsTick(telem)
           pkt == TelemetryPacket(OwnId, telem.x, telem.y, telem.z,
                                  telem.vx, telem.vy, telem.vz)
           written == sends /\ is_open /\ write_ok
       IN  /\ broadcast' = [attempts |-> broadcast.attempts + 1, at |-> now,
                            prev_at |-> broadcast.at, telem |-> telem,
                            sent |-> written]
           /\ serial_out' = IF written
                            THEN serial_out \o Written("telemetry", pack_packet(pkt))
                            ELSE serial_out
           /\ stats' = IF written
                       THEN update_send_stats(stats, TELEMETRY,
                                              HEADER_SIZE + TELEMETRY_SIZE)
                       ELSE stats
    /\ telemetry_timer' = [telemetry_timer EXCEPT !.pc = "after"]
    /\ UNCHANGED << is_open, link_running, cleanup_timer, stopping, reader,
                    droneVars, lifeUnchanged >>

\* _start_telemetry_timer, line 145
TelemetryAfter ==
    /\ telemetry_timer.pc = "after"
    /\ telemetry_timer' = Rescheduling(telemetry_timer)
    /\ UNCHANGED << stats, serial_out, is_open, link_running, cleanup_timer,
                    stopping, broadcast, reader, droneVars, lifeUnchanged >>

\* lines 146-149: the next timer is made and started
TelemetryArm ==
    /\ telemetry_timer.pc = "arm"
    /\ telemetry_timer' = Armed(now + TelemetryPeriod)
    /\ UNCHANGED << stats, serial_out, is_open, link_running, cleanup_timer,
                    stopping, broadcast, reader, droneVars, lifeUnchanged >>

CleanupFire ==
    /\ cleanup_timer.pc = "armed"
    /\ now >= cleanup_timer.fire_at
    /\ cleanup_timer' = Fired(cleanup_timer)
    /\ UNCHANGED << stats, serial_out, is_open, link_running, telemetry_timer,
                    stopping, broadcast, reader, droneVars, lifeUnchanged >>

\* _start_cleanup_timer, lines 193-194
CleanupEnter ==
    /\ cleanup_timer.pc = "enter"
    /\ cleanup_timer' = Entered(cleanup_timer)
    /\ UNCHANGED << stats, serial_out, is_open, link_running, telemetry_timer,
                    stopping, broadcast, reader, droneVars, lifeUnchanged >>

\* the callback calls _cleanup_expired_drones, which reads the clock; the
\* sweep goes on with SweepLock, SweepExamine and SweepDelete
CleanupRun ==
    /\ cleanup_timer.pc = "run"
    /\ sweep.pc = "idle"
    /\ sweep' = [IdleSweep EXCEPT !.pc = "lock", !.current_time = now]
    /\ cleanup_timer' = [cleanup_timer EXCEPT !.pc = "sweep"]
    /\ UNCHANGED << stats, serial_out, is_open, link_running, telemetry_timer,
                    stopping, broadcast, reader, other_drones, now, expiry_timeout,
                    other_drones_lock, ev, removed, lifeUnchanged >>

\* the sweep has returned; _start_cleanup_timer, line 202
CleanupAfter ==
    /\ cleanup_timer.pc = "sweep"
    /\ sweep.pc = "idle"
    /\ cleanup_timer' = Rescheduling(cleanup_timer)
    /\ UNCHANGED << stats, serial_out, is_open, link_running, telemetry_timer,
                    stopping, broadcast, reader, droneVars, lifeUnchanged >>

\* lines 203-204
CleanupArm ==
    /\ cleanup_timer.pc = "arm"
    /\ cleanup_timer' = Armed(now + CleanupPeriod)
    /\ UNCHANGED << stats, serial_out, is_open, link_running, telemetry_timer,
                    stopping, broadcast, reader, droneVars, lifeUnchanged >>

\* ESP32Link._receive_thread: the test of the loop
ReaderTest ==
    /\ reader.pc = "test"
    /\ reader' = [reader EXCEPT
                     !.pc = IF KeepsGoing(link_running) THEN "poll" ELSE "exited"]
    /\ UNCHANGED << stats, serial_out, is_open, link_running, telemetry_timer,
                    cleanup_timer, stopping, broadcast, droneVars, lifeUnchanged >>

\* one round of the loop with nothing waiting on the port: the port is asked
\* and the thread sleeps; asking a closed port raises, which the loop catches
ReaderPoll ==
    /\ reader.pc = "poll"
    /\ serial_in = << >>
    /\ reader' = [reader EXCEPT !.pc = "test"]
    /\ UNCHANGED << stats, serial_out, is_open, link_running, telemetry_timer,
                    cleanup_timer, stopping, broadcast, droneVars, lifeUnchanged >>

\* Drone.stop() after it has cleared Drone.running: lines 116-117
StopCancelTelemetry ==
    /\ ~running
    /\ stopping = "no"
    /\ telemetry_timer' = Cancelled(telemetry_timer)
    /\ stopping' = "cancel_cleanup"
    /\ UNCHANGED << stats, serial_out, is_open, link_running, cleanup_timer,
                    broadcast, reader, droneVars, lifeUnchanged >>

\* lines 119-120
StopCancelCleanup ==
    /\ stopping = "cancel_cleanup"
    /\ cleanup_timer' = Cancelled(cleanup_timer)
    /\ stopping' = "link"
    /\ UNCHANGED << stats, serial_out, is_open, link_running, telemetry_timer,
                    broadcast, reader, droneVars, lifeUnchanged >>

\* self.link.stop(): ESP32Link.running is cleared; the join that follows waits
\* for the reader thread for at most a second
StopLink ==
    /\ stopping = "link"
    /\ link_running' = FALSE
    /\ stopping' = "disconnect"
    /\ UNCHANGED << stats, serial_out, is_open, telemetry_timer, cleanup_timer,
                    broadcast, reader, droneVars, lifeUnchanged >>

\* self.link.disconnect(): the port is closed, whether the join saw the reader
\* thread end or gave up
StopDisconnect ==
    /\ stopping = "disconnect"
    /\ is_open' = FALSE
    /\ stopping' = "done"
    /\ UNCHANGED << stats, serial_out, link_running, telemetry_timer, cleanup_timer,
                    broadcast, reader, droneVars, lifeUnchanged >>

StopStep == StopCancelTelemetry \/ StopCancelCleanup \/ StopLink \/ StopDisconnect

TelemetryStep ==
    \/ TelemetryFire
    \/ TelemetryEnter
    \/ \E telem \in BroadcastOutcomes, write_ok \in BOOLEAN :
          TelemetryBroadcast(telem, write_ok)
    \/ TelemetryAfter
    \/ TelemetryArm

CleanupStep ==
    \/ CleanupFire
    \/ CleanupEnter
    \/ CleanupRun
    \/ SweepLock
    \/ SweepDelete
    \/ CleanupAfter
    \/ CleanupArm

ReaderStep == ReaderTest \/ ReaderPoll

\* A tenth of a second passes. The steps of a callback take no time, and a
\* timer fires when its time has come. Once the drone is stopped the clock
\* goes on for as long as a timer is still waiting.
LifeElapse ==
    /\ ~InFlight(telemetry_timer)
    /\ ~InFlight(cleanup_timer)
    /\ telemetry_timer.pc = "armed" => now < telemetry_timer.fire_at
    /\ cleanup_timer.pc = "armed" => now < cleanup_timer.fire_at
    /\ \/ running /\ now < MaxLifeClock
       \/ ~running /\ "armed" \in {telemetry_timer.pc, cleanup_timer.pc}
    /\ now' = now + 1
    /\ UNCHANGED << other_drones, expiry_timeout, sweep, other_drones_lock, ev,
                    removed, stats, serial_out, is_open, link_running,
                    telemetry_timer, cleanup_timer, stopping, broadcast, reader,
                    lifeUnchanged >>

InitLife == Init

NextLife ==
    \/ TelemetryStep
    \/ CleanupStep
    \/ ReaderStep
    \/ Stop
    \/ StopStep
    \/ LifeElapse

SpecLife == InitLife /\ [][NextLife]_vars

\* the threads are scheduled again and again, and time goes on
SpecLifeFair ==
    /\ SpecLife
    /\ WF_vars(TelemetryStep)
    /\ WF_vars(CleanupStep)
    /\ WF_vars(ReaderStep)
    /\ WF_vars(StopStep)
    /\ WF_vars(LifeElapse)

\* the values the last tick got from the service are all numbers
AllFinite(telem) ==
    /\ telem.kind = "values"
    /\ \A v \in {telem.x, telem.y, telem.z, telem.vx, telem.vy, telem.vz} : ~IsNaN(v)

\* C21: a tick of _broadcast_telemetry writes a Telemetry frame only when all
\* six values the service returned for it are finite, and a tick comes no
\* earlier than one telemetry period after the tick before it, whether that
\* one sent or skipped.
C21_FiniteOnly ==
    /\ broadcast.sent => AllFinite(broadcast.telem)
    /\ broadcast.attempts >= 2 => broadcast.at - broadcast.prev_at >= TelemetryPeriod

\* all three background loops have ended
AllCeased ==
    /\ Ceased(telemetry_timer)
    /\ Ceased(cleanup_timer)
    /\ reader.pc = "exited"

\* C25: a broadcast or a sweep is only ever run by a callback whose timer
\* fired while Drone.running was still set (the iteration in flight when
\* stop() cleared the flag); once stop() has cleared the flag the telemetry
\* chain, the cleanup chain and the reader loop all come to an end, and a
\* loop that has ended stays so.
C25_LoopsCease ==
    /\ [](telemetry_timer.pc = "run" => telemetry_timer.fired_running)
    /\ [](cleanup_timer.pc \in {"run", "sweep"} => cleanup_timer.fired_running)
    /\ [][AllCeased => AllCeased']_vars
    /\ (~running) ~> AllCeased

\* stop() cleared the flag while a telemetry callback was between its second
\* test and the start of the next timer: that timer was not cancelled, fired
\* after the stop and its callback returned at the first test; everything has
\* ended and the port is closed
C25_Witness ==
    /\ stopping = "done"
    /\ ~is_open
    /\ AllCeased
    /\ telemetry_timer.pc = "ended"
    /\ ~telemetry_timer.fired_running
    /\ broadcast.attempts >= 1

(***************************************************************************)
(* drone.py: peers whose telemetry has stopped                             *)
(***************************************************************************)
\* the peers' Telemetry packets all arrive at time 0; their Status packets
\* keep arriving
TelemetryAtStart(pkt) ==
    /\ now = 0
    /\ HandleTelemetry(pkt)

InitExpire == Init

NextExpire ==
    \/ \E pkt \in TelemetryPackets : TelemetryAtStart(pkt)
    \/ \E pkt \in StatusPackets : HandleStatus(pkt)
    \/ Tick
    \/ SweepStart
    \/ SweepLock
    \/ SweepExamine
    \/ SweepDelete

SpecExpire == InitExpire /\ [][NextExpire]_vars

\* C22: the last Telemetry packet of every peer was received at time 0, so a
\* sweep that reads the clock more than the expiry timeout later leaves no
\* peer in the table, whatever Status packets were handled in between.
C22_SilentPeerExpires ==
    (ev.op = "sweep" /\ ev.time > expiry_timeout) => other_drones = NoDrones

(***************************************************************************)
(* drone.py: set_drone_expiry_timeout                                      *)
(***************************************************************************)
\* C23: the expiry timeout is never below 1.0 s. It is 5.0 s as long as
\* set_drone_expiry_timeout was not called; after a call it is 1.0 s when the
\* argument of the last call was below 1.0 and the argument itself otherwise.
\* The sweep compares every entry with a timeout of at least 1.0 s.
C23_TimeoutFloor ==
    /\ expiry_timeout >= 10
    /\ timeout_arg = << >> => expiry_timeout = DefaultExpiryTimeout
    /\ timeout_arg # << >> =>
          expiry_timeout = (IF timeout_arg[1] < 10 THEN 10 ELSE timeout_arg[1])
    /\ \A k \in DOMAIN sweep.tmo : sweep.tmo[k] >= 10

\* 3.0 s was set and then 0.5 s asked for: the timeout is 1.0 s, and the sweep
\* has compared an entry with it
C23_Witness ==
    /\ timeout_arg = << 5 >>
    /\ expiry_timeout = 10
    /\ ev.op = "sweep"
    /\ \E k \in DOMAIN ev.tmo : ev.tmo[k] = 10
    /\ \E k \in DOMAIN ev.before : k \notin DOMAIN other_drones

(***************************************************************************)
(* packet_codec.py, link.py: what a rejection tells                        *)
(***************************************************************************)
\* frame has the length its header announces
Complete(frame) ==
    /\ Len(frame) >= HEADER_SIZE
    /\ Len(frame) = HEADER_SIZE + UnpackHeader(SubSeq(frame, 1, HEADER_SIZE)).payload_size

\* the test of unpack_packet at which a complete frame is turned down: the
\* CRC comparison, the final else of the type cascade, or the size test of
\* the frame's type; "none" for a frame that is decoded
RejectCause(frame) ==
    LET header == UnpackHeader(SubSeq(frame, 1, HEADER_SIZE))
        payload == Slice(frame, HEADER_SIZE, Len(frame))
    IN  IF ~CrcOk(header, payload) THEN "crc"
        ELSE IF header.packet_type \notin PacketType THEN "type"
        ELSE IF /\ header.packet_type # BULK_DATA
                /\ header.payload_size # ExpectedSize(header.packet_type)
        THEN "size"
        ELSE "none"

Rejected(frame) == Complete(frame) /\ RejectCause(frame) # "none"

\* C24: two complete frames that unpack_packet rejects for different causes
\* (bad CRC, unknown type, wrong size for the type) get different results
\* from it, so that its caller can tell the causes apart.
C24_CausesDistinguished ==
    \A F \in LinkFrames :
        (/\ Rejected(stream[1])
         /\ Rejected(F)
         /\ RejectCause(F) # RejectCause(stream[1])) => Decoded(F) # Decoded(stream[1])

(***************************************************************************)
(* link.py: exceptions on the reader thread                                *)
(***************************************************************************)
\* the exceptions of one round of the reader loop
MaxFaults == 2

\* where an exception is raised in a round: by the serial port when it is
\* asked or read, by the extractor, by the decoder, by a callback given the
\* packet
Faults == {"read", "extract", "decode", "callback"}

\* nothing catches the exception
HandlerOf_none(fault) == "none"

\* the innermost except clause around the place that raises
HandlerOf(fault) ==
    CASE fault = "read" -> "_receive_thread"
      [] fault = "extract" -> "_process_received_data"
      [] fault = "decode" -> "_handle_packet"
      [] fault = "callback" -> "_handle_received_packet"

\* _handle_packet in a round with an exception. A decoder that raises is
\* caught by _handle_packet, which counts the packet as corrupted; a callback
\* that raises had been given the packet, after the statistics and the Ack,
\* and _handle_received_packet only logs the exception.
handle_packet_raising(ln, packet_data, ack, write_ok, fault) ==
    IF fault = "decode"
    THEN [ln EXCEPT !.stats.packets_corrupted = @ + 1]
    ELSE handle_packet(ln, packet_data, ack, write_ok)

\* the loop of _process_received_data in such a round
RECURSIVE process_packets_raising(_, _, _, _)
process_packets_raising(ln, ack, write_ok, fault) ==
    LET e == extract_packet(ln.rx_buffer)
        taken == [ln EXCEPT !.rx_buffer = e.rx_buffer]
    IN  IF ~e.found THEN taken
        ELSE process_packets_raising(
                handle_packet_raising(taken, e.packet_data, ack, write_ok, fault),
                ack, write_ok, fault)

\* what a round with an exception leaves of the link's state: the handlers of
\* _receive_thread and _process_received_data empty the receive buffer, the
\* other two leave it alone
AfterFault(ln, data, ack, write_ok, fault) ==
    IF fault \in {"read", "extract"} THEN [ln EXCEPT !.rx_buffer = << >>]
    ELSE process_packets_raising([ln EXCEPT !.rx_buffer = @ \o data],
                                 ack, write_ok, fault)

faultUnchanged ==
    << codecVars, sendVars, droneVars, waitVars, snapVars, navVars,
       timeout_arg, link_running, telemetry_timer, cleanup_timer, stopping,
       broadcast, sysVars >>

\* a round of the reader loop without an exception
ReadAlive(n, ack, write_ok) ==
    /\ reader.pc = "test"
    /\ ReadChunk(n, ack, write_ok)

\* a round in which an exception is raised: the port raises before it has
\* handed over a byte, or the n bytes are read and the extractor raises, or the
\* decoder or the callback raises for every packet of the round. The thread lives on when an except
\* clause catches the exception. reader.left is the number of bytes still to
\* be read after the round, reader.lost whether a round has thrown received
\* bytes away.
ReadFault(n, ack, write_ok, fault) ==
    /\ reader.pc = "test"
    /\ reader.raised < MaxFaults
    /\ n \in 1..Len(serial_in)
    /\ IF HandlerOf(fault) = "none"
       THEN /\ reader' = [reader EXCEPT !.pc = "dead", !.raised = @ + 1]
            /\ UNCHANGED linkVars
       ELSE /\ reader' = [reader EXCEPT
                            !.raised = @ + 1,
                            !.left = IF fault = "read" THEN Len(serial_in)
                                     ELSE Len(serial_in) - n,
                            !.lost = \/ @
                                     \/ fault = "read" /\ rx_buffer # << >>
                                     \/ fault = "extract"]
            /\ SetLinkState(AfterFault(LinkState, SubSeq(serial_in, 1, n),
                                       ack, write_ok, fault))
            /\ serial_in' = IF fault = "read" THEN serial_in
                            ELSE Slice(serial_in, n, Len(serial_in))
            /\ UNCHANGED stream
    /\ UNCHANGED faultUnchanged

\* a Ping, a Ping with a damaged CRC or a frame of unknown type, and behind it a
\* Status packet or a Ping
FaultFirst == {pack_packet(PingPacket(0)), BadCrcFrame, RawFrame(0, << 1 >>)}
FaultSecond == {pack_packet(StatusPacket(7, 4, 3300, 0)), pack_packet(PingPacket(0))}

InitFault ==
    /\ CodecIdle
    /\ LinkIdle
    /\ SendIdle
    /\ DroneIdle
    /\ \E X \in FaultFirst, Y \in FaultSecond :
          /\ stream = << X, Y >>
          /\ serial_in = X \o Y

\* no Ping is answered differently for the exception: one Ack, a port that
\* takes it
NextFault ==
    \/ \E n \in Chunks(Len(serial_in)) : ReadAlive(n, generate_ack_packet(1, 0, 0), TRUE)
    \/ \E n \in Chunks(Len(serial_in)), fault \in Faults :
          ReadFault(n, generate_ack_packet(1, 0, 0), TRUE, fault)

SpecFault == InitFault /\ [][NextFault]_vars

LiesAt(buf, i, frame) == SubSeq(buf, i, i + Len(frame) - 1) = frame

\* C27: after a header whose payload_size is out of [2, 128] the extractor
\* goes on in the same pass, so that between two rounds of the reader the
\* receive buffer never holds the complete well-formed frame that follows.
C27_NoFrameLeftWaiting ==
    \A i \in 1..(Len(rx_buffer) - Len(stream[2]) + 1) :
        ~LiesAt(rx_buffer, i, stream[2])

\* the part of the second frame that has been read
ReadOfSecond == SubSeq(stream[2], 1, Len(stream[2]) - Len(serial_in))

\* C28: a complete frame that the decoder rejects is taken out of the buffer
\* whole, counted once in packets_corrupted and in no receive counter, and
\* given to no callback: as soon as its last byte is read the buffer holds
\* what was read of the frame behind it and nothing else. The pass goes on
\* with that frame: once it is read, in the same round or a later one, it is
\* decoded and counted on its own.
C28_RejectedFrameDropped ==
    Rejected(stream[1]) =>
        /\ (0 < Len(serial_in) /\ Len(serial_in) <= Len(stream[2])) =>
              /\ rx_buffer = ReadOfSecond
              /\ stats.packets_corrupted = 1
              /\ stats.packets_received = 0
              /\ stats.bytes_received = 0
              /\ delivered = << >>
        /\ serial_in = << >> =>
              /\ rx_buffer = << >>
              /\ IF Truthy(Decoded(stream[2]))
                 THEN /\ delivered = << Decoded(stream[2]) >>
                      /\ stats.packets_corrupted = 1
                      /\ stats.packets_received = 1
                      /\ stats.bytes_received = Len(stream[2])
                 ELSE /\ delivered = << >>
                      /\ stats.packets_corrupted = 2
                      /\ stats.packets_received = 0

\* a Ping with a damaged CRC and a Config packet were read in one round: the
\* Ping was counted as corrupted, the Config packet delivered
C28_Witness ==
    /\ serial_in = << >>
    /\ stream[1] = BadCrcFrame
    /\ rx_buffer = << >>
    /\ stats.packets_corrupted = 1
    /\ stats.packets_received = 1
    /\ Len(delivered) = 1
    /\ delivered[1].kind = "ConfigPacket"

\* the type byte of a frame
TypeOf(frame) == frame[4]

\* C29: when two well-formed frames have been read, both were counted as
\* received, in total and under their types, with their full sizes, both were
\* given to the callbacks in order, and nothing was counted as corrupted.
C29_ValidFrameCounted ==
    (serial_in = << >> /\ stream[1] \in GoodFrames) =>
        /\ stats.packets_corrupted = 0
        /\ stats.packets_received = 2
        /\ stats.bytes_received = Len(stream[1]) + Len(stream[2])
        /\ \A t \in PacketType :
              stats.packets_received_by_type[t]
                  = Cardinality({j \in 1..2 : TypeOf(stream[j]) = t})
        /\ delivered = << Decoded(stream[1]), Decoded(stream[2]) >>

\* the link after the whole stream was read in one round
WholeStream ==
    process_received_data(
        [rx_buffer |-> << >>, delivered |-> << >>, stats |-> InterfaceStats,
         serial_out |-> << >>, sent_by_reader |-> << >>],
        stream[1] \o stream[2], generate_ack_packet(1, 0, 0), TRUE)

\* C30: once the stream is read, the packets delivered and packets_corrupted
\* are those of reading the whole stream in one round, however it was split.
C30_ChunkingIrrelevant ==
    serial_in = << >> =>
        /\ delivered = WholeStream.delivered
        /\ stats.packets_corrupted = WholeStream.stats.packets_corrupted

(***************************************************************************)
(* drone.py, link.py: Drone.start() and Drone.stop() called again and      *)
(* again from one thread, with the timer threads and the reader threads    *)
(* running between the steps of the calls                                  *)
(***************************************************************************)
\* the calls of start() and stop() made in one run
MaxStartCalls == 3

\* Drone.__init__: _telemetry_timer and _cleanup_timer are None
NoTimers == [t \in Tasks |-> [chains |-> << >>, ref |-> 0]]

\* ESP32Link.__init__: _rx_thread is None
NoThreads == [threads |-> << >>, ref |-> 0]

\* a new Timer or Thread object is made and the attribute refers to it
Created(objects, pc) ==
    [objects EXCEPT !.chains = Append(@, pc), !.ref = Len(objects.chains) + 1]

\* Timer.cancel() on the object the attribute refers to: it stops a timer
\* that waits, and does nothing to one whose callback was called
CancelRef(objects) ==
    IF objects.ref # 0 /\ objects.chains[objects.ref] = "armed"
    THEN [objects EXCEPT !.chains[objects.ref] = "cancelled"]
    ELSE objects

\* Thread.is_alive() of the thread _rx_thread refers to
RefAlive ==
    rx_threads.ref # 0 /\ rx_threads.threads[rx_threads.ref] # "exited"

\* join(timeout=1.0) returns: the thread has ended, or the second has passed
\* while the thread was busy with the bytes it had read
JoinReturns ==
    IF RefAlive THEN rx_threads.threads[rx_threads.ref] = "body" ELSE TRUE

startUnchanged ==
    << lockers, link_network_id, retry, codecVars, linkVars, senders, send_lock, droneVars, waiter, unlocked_access,
       snapVars, navVars, timeout_arg, telemetry_timer, cleanup_timer, stopping,
       broadcast, reader >>

\* the user calls Drone.start()
DroneStartCall ==
    /\ user.pc = "idle"
    /\ user.calls < MaxStartCalls
    /\ user' = [pc |-> "connect", calls |-> user.calls + 1]
    /\ UNCHANGED << running, link_running, is_open, timers, rx_threads, startUnchanged >>

\* ESP32Link.start(): connect() closes the port if it is open and opens it
\* anew; when that fails both start() calls return False
LinkConnect(ok) ==
    /\ user.pc = "connect"
    /\ is_open' = ok
    /\ user' = [user EXCEPT !.pc = IF ok THEN "thread" ELSE "idle"]
    /\ UNCHANGED << running, link_running, timers, rx_threads, startUnchanged >>

\* ESP32Link.start(), lines 119-121: the flag is set and a reader thread is
\* made and started, whatever _rx_thread referred to
LinkStartThread ==
    /\ user.pc = "thread"
    /\ link_running' = TRUE
    /\ rx_threads' = [threads |-> Append(rx_threads.threads, "test"),
                      ref |-> Len(rx_threads.threads) + 1]
    /\ user' = [user EXCEPT !.pc = "running"]
    /\ UNCHANGED << running, is_open, timers, startUnchanged >>

\* Drone.start(), line 101
DroneSetRunning ==
    /\ user.pc = "running"
    /\ running' = TRUE
    /\ user' = [user EXCEPT !.pc = "telemetry"]
    /\ UNCHANGED << link_running, is_open, timers, rx_threads, startUnchanged >>

\* Drone.start(), lines 104 and 107: the user's thread calls the callback
\* itself; it does the task's work once and makes the first Timer
DroneFirstRun(task) ==
    /\ user.pc = task
    /\ timers' = [timers EXCEPT ![task] =
                     IF KeepsGoing(running) THEN Created(@, "armed") ELSE @]
    /\ user' = [user EXCEPT !.pc = IF task = "telemetry" THEN "cleanup" ELSE "idle"]
    /\ UNCHANGED << running, link_running, is_open, rx_threads, startUnchanged >>

\* the user calls Drone.stop(): line 114
DroneStopCall ==
    /\ user.pc = "idle"
    /\ user.calls < MaxStartCalls
    /\ running' = FALSE
    /\ user' = [pc |-> "cancel_telemetry", calls |-> user.calls + 1]
    /\ UNCHANGED << link_running, is_open, timers, rx_threads, startUnchanged >>

\* Drone.stop(), lines 116-120
DroneStopCancel(task) ==
    /\ user.pc = "cancel_" \o task
    /\ timers' = [timers EXCEPT ![task] = CancelRef(@)]
    /\ user' = [user EXCEPT
                   !.pc = IF task = "telemetry" THEN "cancel_cleanup" ELSE "link_stop"]
    /\ UNCHANGED << running, link_running, is_open, rx_threads, startUnchanged >>

\* ESP32Link.stop(), line 193
LinkStop ==
    /\ user.pc = "link_stop"
    /\ link_running' = FALSE
    /\ user' = [user EXCEPT !.pc = "join"]
    /\ UNCHANGED << running, is_open, timers, rx_threads, startUnchanged >>

\* ESP32Link.stop(), lines 194-195
LinkJoin ==
    /\ user.pc = "join"
    /\ JoinReturns
    /\ user' = [user EXCEPT !.pc = "disconnect"]
    /\ UNCHANGED << running, link_running, is_open, timers, rx_threads, startUnchanged >>

\* ESP32Link.disconnect(): stop() once more, then the port is closed
LinkDisconnect ==
    /\ user.pc = "disconnect"
    /\ JoinReturns
    /\ link_running' = FALSE
    /\ is_open' = FALSE
    /\ user' = [user EXCEPT !.pc = "idle"]
    /\ UNCHANGED << running, timers, rx_threads, startUnchanged >>

\* the Timer thread of chain i calls the callback
ChainFire(task, i) ==
    /\ timers[task].chains[i] = "armed"
    /\ timers' = [timers EXCEPT ![task].chains[i] = "enter"]
    /\ UNCHANGED << running, link_running, is_open, user, rx_threads, startUnchanged >>

\* the callback's first test of Drone.running
ChainEnter(task, i) ==
    /\ timers[task].chains[i] = "enter"
    /\ timers' = [timers EXCEPT ![task].chains[i] =
                     IF KeepsGoing(running) THEN "run" ELSE "ended"]
    /\ UNCHANGED << running, link_running, is_open, user, rx_threads, startUnchanged >>

\* _broadcast_telemetry() or _cleanup_expired_drones() returns or raises
ChainRun(task, i) ==
    /\ timers[task].chains[i] = "run"
    /\ timers' = [timers EXCEPT ![task].chains[i] = "after"]
    /\ UNCHANGED << running, link_running, is_open, user, rx_threads, startUnchanged >>

\* the callback's second test: a new Timer is made and the attribute set
ChainArm(task, i) ==
    /\ timers[task].chains[i] = "after"
    /\ timers' = [timers EXCEPT ![task] =
                     IF KeepsGoing(running)
                     THEN [@ EXCEPT !.chains[i] = "armed", !.ref = i]
                     ELSE [@ EXCEPT !.chains[i] = "ended"]]
    /\ UNCHANGED << running, link_running, is_open, user, rx_threads, startUnchanged >>

\* reader thread i tests ESP32Link.running
RxTest(i) ==
    /\ rx_threads.threads[i] = "test"
    /\ rx_threads' = [rx_threads EXCEPT !.threads[i] =
                         IF KeepsGoing(link_running) THEN "body" ELSE "exited"]
    /\ UNCHANGED << running, link_running, is_open, user, timers, startUnchanged >>

\* reader thread i has asked the port, read and processed what was there, or
\* slept
RxBody(i) ==
    /\ rx_threads.threads[i] = "body"
    /\ rx_threads' = [rx_threads EXCEPT !.threads[i] = "test"]
    /\ UNCHANGED << running, link_running, is_open, user, timers, startUnchanged >>

\* the objects after Drone.__init__ and ESP32Link.__init__
InitStart ==
    /\ CodecIdle
    /\ LinkIdle
    /\ serial_in = << >>
    /\ stream = << >>
    /\ senders = [t \in SendThreads |-> IdleSender]
    /\ send_lock = "free"
    /\ is_open = FALSE
    /\ other_drones = NoDrones
    /\ now = 0
    /\ expiry_timeout = DefaultExpiryTimeout
    /\ sweep = IdleSweep
    /\ other_drones_lock = "free"
    /\ ev = Event("init", None, 0, NoDrones, NoDrones)
    /\ removed = {}
    /\ running = FALSE
    /\ waiter = IdleWaiter
    /\ unlocked_access = {}
    /\ nav = IdleNav
    /\ snapshot = NoDrones
    /\ alias = {}
    /\ previous_velocity = ZeroVelocity
    /\ law = NoLaw
    /\ timeout_arg = << >>
    /\ link_running = FALSE
    /\ telemetry_timer = [pc |-> "ended", fire_at |-> 0, fired_running |-> FALSE]
    /\ cleanup_timer = [pc |-> "ended", fire_at |-> 0, fired_running |-> FALSE]
    /\ stopping = "no"
    /\ broadcast = NoBroadcast
    /\ reader = [pc |-> "exited", raised |-> 0, left |-> 0, lost |-> FALSE]
    /\ user = [pc |-> "idle", calls |-> 0]
    /\ timers = NoTimers
    /\ rx_threads = NoThreads
    /\ lockers = [t \in LockThreads |-> IdleLocker]
    /\ link_network_id = DefaultNetworkId
    /\ retry = NoRetry

NextStart ==
    \/ DroneStartCall
    \/ \E ok \in BOOLEAN : LinkConnect(ok)
    \/ LinkStartThread
    \/ DroneSetRunning
    \/ \E task \in Tasks : DroneFirstRun(task)
    \/ DroneStopCall
    \/ \E task \in Tasks : DroneStopCancel(task)
    \/ LinkStop
    \/ LinkJoin
    \/ LinkDisconnect
    \/ \E task \in Tasks : \E i \in 1..Len(timers[task].chains) :
          \/ ChainFire(task, i)
          \/ ChainEnter(task, i)
          \/ ChainRun(task, i)
          \/ ChainArm(task, i)
    \/ \E i \in 1..Len(rx_threads.threads) : RxTest(i) \/ RxBody(i)

SpecStart == InitStart /\ [][NextStart]_vars

\* the chains of a task that are at one of the given places
ChainsAt(task, pcs) ==
    {i \in 1..Len(timers[task].chains) : timers[task].chains[i] \in pcs}

\* C31: of each periodic task at most one run is executing (a callback between
\* its two tests of Drone.running) and at most one Timer waits to fire,
\* whatever start() and stop() calls were made and however the threads ran.
C31_NoStackedRuns ==
    \A task \in Tasks :
        /\ Cardinality(ChainsAt(task, {"run", "after"})) <= 1
        /\ Cardinality(ChainsAt(task, {"armed"})) <= 1

\* C32: at most one reader thread is inside the body of the receive loop,
\* where the port is read and the receive buffer changed, whatever start()
\* and stop() calls were made.
C32_OneReader ==
    Cardinality({i \in 1..Len(rx_threads.threads) :
                    rx_threads.threads[i] = "body"}) <= 1

(***************************************************************************)
(* lib/statistics.py, link.py: the totals and the counters per type        *)
(***************************************************************************)
\* C33: whenever the statistics lock is free to be taken, each total equals
\* the sum of its counters per type: packets and bytes, sent and received.
C33_TotalsAreSums ==
    /\ stats.packets_sent = Sum(stats.packets_sent_by_type, PacketType)
    /\ stats.bytes_sent = Sum(stats.bytes_sent_by_type, PacketType)
    /\ stats.packets_received = Sum(stats.packets_received_by_type, PacketType)
    /\ stats.bytes_received = Sum(stats.bytes_received_by_type, PacketType)

(***************************************************************************)
(* link.py, drone.py: the five locks and the threads that take them        *)
(***************************************************************************)
\* ESP32Link._lock, Statistics.lock, ESP32Link._buffer_lock,
\* Drone._other_drones_lock, Drone._telemetry_lock
Locks == {"_lock", "stats.lock", "_buffer_lock", "_other_drones_lock", "_telemetry_lock"}

Acquire(lock) == [op |-> "acquire", lock |-> lock]
Release(lock) == [op |-> "release", lock |-> lock]

\* a callback given to the link or to the drone is called
Callback(name) == [op |-> "callback", lock |-> name]

\* "with lock:" around the steps of body
With(lock, body) == << Acquire(lock) >> \o body \o << Release(lock) >>

\* ESP32Link._update_send_stats, _update_receive_stats, get_statistics and the
\* two places of _handle_packet that count a corrupted packet
update_send_stats_steps == With("stats.lock", << >>)

\* ESP32Link.send_packet with the statistics taken before the send lock
send_packet_steps_reversed ==
    {<< >>, With("stats.lock", With("_lock", << >>))}

\* ESP32Link.send_packet: the port is closed; the write fails or is short; the
\* write succeeds and the counters are updated inside "with self._lock"
send_packet_steps ==
    {<< >>, With("_lock", << >>), With("_lock", update_send_stats_steps)}

\* Drone._handle_telemetry_packet, _handle_status_packet,
\* _cleanup_expired_drones, get_discovered_drones, the copy in
\* navigate_with_avoidance, the list in wait_for_drones
other_drones_steps == With("_other_drones_lock", << >>)

\* the get_telemetry service is called inside "with self._telemetry_lock"
telemetry_steps == With("_telemetry_lock", << >>)

\* ESP32Link._reset_rx_state, _extract_packet, the extend of
\* _process_received_data
buffer_steps == With("_buffer_lock", << >>)

\* ESP32Link._handle_received_packet: a Ping is answered; a custom message is
\* given to the user's callback, which may send; a Telemetry or Status packet
\* is given to the drone's handler; any other packet has no callback
handle_received_packet_steps ==
    send_packet_steps
    \cup {<< Callback("custom_message") >> \o s : s \in send_packet_steps}
    \cup {<< Callback("telemetry") >> \o other_drones_steps,
          << Callback("status") >> \o other_drones_steps}

\* ESP32Link._handle_packet: the frame is rejected; or it is counted and
\* handled
handle_packet_steps ==
    {update_send_stats_steps}
    \cup {update_send_stats_steps \o h : h \in handle_received_packet_steps}

\* ESP32Link._process_received_data: the bytes are appended; a frame is
\* extracted and handled, or none is there; the extractor finds no more, or
\* something has raised and the buffer is reset
process_received_data_steps ==
    {buffer_steps \o buffer_steps}
    \cup {buffer_steps \o buffer_steps \o h \o buffer_steps : h \in handle_packet_steps}

\* Drone._broadcast_telemetry: the service is asked; the values are sent
\* unless one is NaN or the call raised
broadcast_telemetry_steps == {telemetry_steps \o s : s \in send_packet_steps}

\* one round of the loop of navigate_with_avoidance
navigate_steps == {telemetry_steps, telemetry_steps \o other_drones_steps}

\* Drone.get_network_status: the table is read under its lock; get_statistics
\* is called after the lock is released
get_network_status_steps == other_drones_steps \o update_send_stats_steps

\* what a thread may run
Programs(t) ==
    CASE t = "rx" -> process_received_data_steps
      [] t = "telemetry" -> broadcast_telemetry_steps
      [] t = "cleanup" -> {other_drones_steps}
      [] t = "nav" -> navigate_steps
      [] t = "user" -> send_packet_steps
                          \cup {update_send_stats_steps, get_network_status_steps,
                                other_drones_steps, telemetry_steps}

\* the thread that holds the lock, if any
Holders(lock) ==
    {t \in LockThreads : \E i \in 1..Len(lockers[t].held) : lockers[t].held[i] = lock}

\* thread t is inside an operation and has a step left
HasStep(t) == lockers[t].pc <= Len(lockers[t].steps)

NextStep(t) == lockers[t].steps[lockers[t].pc]

\* thread t stands before a lock that another thread, or t itself, holds
Waiting(t) ==
    /\ HasStep(t)
    /\ NextStep(t).op = "acquire"
    /\ Holders(NextStep(t).lock) # {}

lockUnchanged ==
    << codecVars, linkVars, sendVars, droneVars, waitVars, snapVars, navVars,
       timeout_arg, link_running, telemetry_timer, cleanup_timer, stopping,
       broadcast, reader, startVars, link_network_id, retry >>

\* thread t begins one of its operations
LockBegin(t, steps) ==
    /\ ~HasStep(t)
    /\ steps # << >>
    /\ lockers' = [lockers EXCEPT ![t] = [steps |-> steps, pc |-> 1, held |-> << >>]]
    /\ UNCHANGED lockUnchanged

\* "with lock:" is entered
LockAcquire(t) ==
    /\ HasStep(t)
    /\ NextStep(t).op = "acquire"
    /\ Holders(NextStep(t).lock) = {}
    /\ lockers' = [lockers EXCEPT ![t].pc = @ + 1,
                                  ![t].held = Append(@, NextStep(t).lock)]
    /\ UNCHANGED lockUnchanged

\* the thread after a step that takes no lock: it returns from the operation
\* after the last one
Stepped(locker, held) ==
    IF locker.pc = Len(locker.steps) THEN IdleLocker
    ELSE [locker EXCEPT !.pc = @ + 1, !.held = held]

\* "with lock:" is left
LockRelease(t) ==
    /\ HasStep(t)
    /\ NextStep(t).op = "release"
    /\ lockers' = [lockers EXCEPT
                      ![t] = Stepped(@, SubSeq(@.held, 1, Len(@.held) - 1))]
    /\ UNCHANGED lockUnchanged

\* a callback is called
LockCallback(t) ==
    /\ HasStep(t)
    /\ NextStep(t).op = "callback"
    /\ lockers' = [lockers EXCEPT ![t] = Stepped(@, @.held)]
    /\ UNCHANGED lockUnchanged

InitLocks == Init

NextLocks ==
    \/ \E t \in LockThreads : \E steps \in Programs(t) : LockBegin(t, steps)
    \/ \E t \in LockThreads : LockAcquire(t)
    \/ \E t \in LockThreads : LockRelease(t)
    \/ \E t \in LockThreads : LockCallback(t)

SpecLocks == InitLocks /\ [][NextLocks]_vars

\* C34: the threads never deadlock on the five locks. A thread holds nothing,
\* one lock, or the send lock and inside it the statistics lock; a callback
\* is called by a thread that holds no lock; and whenever a thread waits for
\* a lock, the thread that holds it can take its next step.
C34_NoDeadlock ==
    /\ \A t \in LockThreads :
          \/ Len(lockers[t].held) <= 1
          \/ lockers[t].held = << "_lock", "stats.lock" >>
    /\ \A t \in LockThreads :
          (HasStep(t) /\ NextStep(t).op = "callback") => lockers[t].held = << >>
    /\ \A lock \in Locks : Cardinality(Holders(lock)) <= 1
    /\ \A t \in LockThreads :
          Waiting(t) =>
              \A h \in Holders(NextStep(t).lock) :
                  /\ h # t
                  /\ HasStep(h)
                  /\ ~Waiting(h) \/ NextStep(h).lock # NextStep(t).lock
                  /\ Waiting(h) => \A g \in Holders(NextStep(h).lock) :
                                      HasStep(g) /\ ~Waiting(g)

\* the reader thread is answering a Ping and holds the send lock and the
\* statistics lock; the telemetry timer waits for the send lock and the user,
\* inside get_statistics, for the statistics lock
C34_Witness ==
    /\ lockers["rx"].held = << "_lock", "stats.lock" >>
    /\ Waiting("telemetry")
    /\ NextStep("telemetry").lock = "_lock"
    /\ Waiting("user")
    /\ NextStep("user").lock = "stats.lock"

(***************************************************************************)
(* link.py: the receive buffer under a run of headers with a bad size      *)
(***************************************************************************)
\* the headers with an out-of-range payload_size that arrive in a row
MaxBadHeaders == 28

\* a header with the preamble and payload_size MAX_PAYLOAD_SIZE + 1
OversizeHeader ==
    PackHeader(PacketHeader(PACKET_PREAMBLE, MAX_PAYLOAD_SIZE + 1, PING, GenNetworkId))

RECURSIVE Times(_, _)
\* the bytes of frame, n times
Times(frame, n) == IF n = 0 THEN << >> ELSE frame \o Times(frame, n - 1)

\* the port hands over one header, ten headers, or all it has
BacklogChunks(len) ==
    {n \in 1..len : n \in {HEADER_SIZE, 10 * HEADER_SIZE, len}}

InitBacklog ==
    /\ CodecIdle
    /\ LinkIdle
    /\ SendIdle
    /\ DroneIdle
    /\ \E k \in 1..MaxBadHeaders :
          /\ stream = << Times(OversizeHeader, k), << >> >>
          /\ serial_in = Times(OversizeHeader, k)

NextBacklog ==
    \E n \in BacklogChunks(Len(serial_in)) :
        ReadChunk(n, generate_ack_packet(1, 0, 0), TRUE)

SpecBacklog == InitBacklog /\ [][NextBacklog]_vars

\* C35: whenever _process_received_data has returned, the receive buffer
\* holds fewer than HEADER_SIZE + MAX_PAYLOAD_SIZE bytes.
C35_NoBacklog == Len(rx_buffer) < HEADER_SIZE + MAX_PAYLOAD_SIZE

(***************************************************************************)
(* link.py: what a header with a bad size is counted as                    *)
(***************************************************************************)
\* C37: once a header that starts with the preamble and carries a
\* payload_size outside [2, 128] has been read, it has been counted in
\* packets_corrupted.
C37_BadSizeCounted ==
    (stream[1] \in BadHeaders /\ Len(serial_in) <= Len(stream[2])) =>
        stats.packets_corrupted >= 1

(***************************************************************************)
(* drone.py: how old an entry can get before the sweep removes it          *)
(***************************************************************************)
\* the clock of these runs stops here
MaxSweepClock == 45

\* the tenths of a second one run of _cleanup_expired_drones may take between
\* reading the clock and returning (the wait for the lock, the two loops)
MaxRunTicks == 1

\* the peer whose packets arrive
PeerTelemetry == TelemetryPacket(7, 0, 0, One, -One, 0, 0)
PeerStatus == StatusPacket(7, 0, 4200, 0)

\* A tenth of a second passes: while the Timer waits, until it is due; and
\* inside _cleanup_expired_drones. The other steps of the callback take no
\* time, and the Timer fires as soon as it is due.
SweepElapse ==
    /\ now < MaxSweepClock
    /\ \/ cleanup_timer.pc = "armed" /\ now < cleanup_timer.fire_at
       \/ /\ cleanup_timer.pc = "sweep"
          /\ sweep.pc \in {"lock", "scan"}
          /\ now - sweep.current_time < MaxRunTicks
    /\ now' = now + 1
    /\ UNCHANGED << other_drones, expiry_timeout, sweep, other_drones_lock, ev,
                    removed, stats, serial_out, is_open, link_running,
                    telemetry_timer, cleanup_timer, stopping, broadcast, reader,
                    lifeUnchanged >>

\* the drone was started and set_drone_expiry_timeout(1.0) was called
InitSweep ==
    /\ CodecIdle
    /\ LinkIdle
    /\ serial_in = << >>
    /\ stream = << >>
    /\ SendIdle
    /\ other_drones = NoDrones
    /\ now = 0
    /\ expiry_timeout = set_drone_expiry_timeout(10)
    /\ sweep = IdleSweep
    /\ other_drones_lock = "free"
    /\ ev = Event("init", None, 0, NoDrones, NoDrones)
    /\ removed = {}
    /\ CallIdle

\* the cleanup timer's chain, the peer's packets and the clock; the telemetry
\* timer's chain takes no part in the sweep and is left out
NextSweep ==
    \/ CleanupFire
    \/ CleanupEnter
    \/ CleanupRun
    \/ SweepLock
    \/ SweepExamine
    \/ SweepDelete
    \/ CleanupAfter
    \/ CleanupArm
    \/ HandleTelemetry(PeerTelemetry)
    \/ HandleStatus(PeerStatus)
    \/ SweepElapse

SpecSweep == InitSweep /\ [][NextSweep]_vars

\* C36: whenever the table can be read, no entry in it is older than the
\* expiry timeout plus one sweep period: an entry that gets no further packet
\* is gone at most expiry_timeout + 2 s after its last_seen.
C36_RemovedInTime ==
    other_drones_lock = "free" =>
        \A k \in DOMAIN other_drones :
            now - other_drones[k].last_seen <= expiry_timeout + CleanupPeriod

(***************************************************************************)
(* link.py: the network_id of the packets the link builds itself           *)
(***************************************************************************)
\* packets the link sends in one run
MaxNetSends == 3

\* the network ids a link is made with: the default and another one
NetworkIds == {DefaultNetworkId, 52}

\* ESP32Link._send_config_packet: the packet it builds
send_config_packet(nid, wifi_channel, tx_power) ==
    [kind |-> "ConfigPacket",
     header |-> PacketHeader(PACKET_PREAMBLE, CONFIG_SIZE, CONFIG, nid),
     network_id |-> nid, wifi_channel |-> wifi_channel,
     tx_power |-> tx_power, crc |-> 0]

\* ESP32Link.send_telemetry: the packet it builds
send_telemetry(nid, drone_id, x, y, z, vx, vy, vz) ==
    [kind |-> "TelemetryPacket",
     header |-> PacketHeader(PACKET_PREAMBLE, TELEMETRY_SIZE, TELEMETRY, nid),
     drone_id |-> drone_id, x |-> x, y |-> y, z |-> z,
     vx |-> vx, vy |-> vy, vz |-> vz, crc |-> 0]

\* ESP32Link.send_custom_message: the packet it builds around the padded text
send_custom_message(nid, custom_data) ==
    [kind |-> "CustomMessagePacket",
     header |-> PacketHeader(PACKET_PREAMBLE, CUSTOM_MESSAGE_SIZE, CUSTOM_MESSAGE, nid),
     custom_data |-> custom_data, crc |-> 0]

\* the packets the user's and the timer's calls make the link build
OwnPackets(nid) ==
    {send_config_packet(nid, 1, 11),
     send_telemetry(nid, OwnId, One, 0, One, 0, 0, 0),
     send_custom_message(nid, PaddedText)}

netUnchanged ==
    << stream, serial_in, codecVars, sendVars, droneVars, waitVars, snapVars, navVars,
       timeout_arg, link_running, telemetry_timer, cleanup_timer, stopping,
       broadcast, reader, startVars, lockers, link_network_id, retry >>

\* send_packet(packet) with a packet the link has built; the port takes it
NetSend(pkt) ==
    /\ stats.packets_sent < MaxNetSends
    /\ serial_out' = serial_out \o Written("user", pack_packet(pkt))
    /\ stats' = update_send_stats(stats, pkt.header.packet_type,
                                  HEADER_SIZE + pkt.header.payload_size)
    /\ UNCHANGED << rx_buffer, delivered, sent_by_reader, netUnchanged >>

\* a Ping frame arrives in one read and is answered
NetPing ==
    /\ stats.packets_sent < MaxNetSends
    /\ SetLinkState(process_received_data(LinkState, pack_packet(PingPacket(0)),
                                          generate_ack_packet(1, 0, 0), TRUE))
    /\ UNCHANGED netUnchanged

\* a link made with one of the network ids
InitNet ==
    /\ CodecIdle
    /\ LinkIdle
    /\ serial_in = << >>
    /\ stream = << >>
    /\ SendIdle
    /\ other_drones = NoDrones
    /\ now = 0
    /\ expiry_timeout = DefaultExpiryTimeout
    /\ sweep = IdleSweep
    /\ other_drones_lock = "free"
    /\ ev = Event("init", None, 0, NoDrones, NoDrones)
    /\ removed = {}
    /\ running = TRUE
    /\ waiter = IdleWaiter
    /\ unlocked_access = {}
    /\ nav = IdleNav
    /\ snapshot = NoDrones
    /\ alias = {}
    /\ previous_velocity = ZeroVelocity
    /\ law = NoLaw
    /\ timeout_arg = << >>
    /\ link_running = TRUE
    /\ telemetry_timer = Armed(TelemetryPeriod)
    /\ cleanup_timer = Armed(CleanupPeriod)
    /\ stopping = "no"
    /\ broadcast = NoBroadcast
    /\ reader = [pc |-> "test", raised |-> 0, left |-> 0, lost |-> FALSE]
    /\ StartedOnce
    /\ lockers = [t \in LockThreads |-> IdleLocker]
    /\ retry = NoRetry
    /\ link_network_id \in NetworkIds

NextNet ==
    \/ \E pkt \in OwnPackets(link_network_id) : NetSend(pkt)
    \/ NetPing

SpecNet == InitNet /\ [][NextNet]_vars

RECURSIVE HeadersOf(_)
\* the headers of the frames that were written one after the other
HeadersOf(bytes) ==
    IF Len(bytes) < HEADER_SIZE THEN << >>
    ELSE LET header == UnpackHeader(SubSeq(bytes, 1, HEADER_SIZE))
         IN  << header >>
                \o HeadersOf(Slice(bytes, HEADER_SIZE + header.payload_size, Len(bytes)))

\* the bytes that were written to the port
BytesOut == [i \in 1..Len(serial_out) |-> serial_out[i].byte]

\* C39: every packet the link has built and written (the config packet,
\* telemetry, custom messages, the Ack that answers a Ping) carries the
\* network_id the link was made with.
C39_OwnNetworkId ==
    \A i \in 1..Len(HeadersOf(BytesOut)) :
        HeadersOf(BytesOut)[i].network_id = link_network_id

(***************************************************************************)
(* drone.py: _call_service_with_retries                                    *)
(***************************************************************************)
\* the largest attempts argument of a call
MaxAttempts == 4

\* what a call of the proxy can return, and the exceptions it can raise
ProxyResults == {1, 2}
ProxyErrors == {1, 2}

\* `if attempt < attempts' with no test of the last attempt: sleeps after every failure
RetriesLeft_always(attempt, attempts) == attempt <= attempts

\* `if attempt < attempts': another attempt follows this failure
RetriesLeft(attempt, attempts) == attempt < attempts

retryUnchanged ==
    << codecVars, linkVars, sendVars, droneVars, waitVars, snapVars, navVars,
       timeout_arg, link_running, telemetry_timer, cleanup_timer, stopping,
       broadcast, reader, startVars, lockers, link_network_id >>

\* `for attempt in range(1, attempts + 1)': the next value, or the end of the loop
RetryLoop ==
    /\ retry.pc = "loop"
    /\ retry' = [retry EXCEPT !.pc = IF retry.attempt <= retry.attempts
                                      THEN "call" ELSE "raise"]
    /\ UNCHANGED retryUnchanged

\* `return proxy(**kwargs)': the proxy returns a result
RetryReturn(result) ==
    /\ retry.pc = "call"
    /\ retry' = [retry EXCEPT
                   !.log = Append(@, [ok |-> TRUE, value |-> result]),
                   !.outcome = [kind |-> "returned", value |-> result],
                   !.pc = "done"]
    /\ UNCHANGED retryUnchanged

\* `except Exception as exc': the proxy raises, last_exc is set, and the code
\* sleeps when attempts are left and breaks when none is
RetryExcept(exc) ==
    /\ retry.pc = "call"
    /\ retry' = [retry EXCEPT
                   !.log = Append(@, [ok |-> FALSE, value |-> exc]),
                   !.last_exc = exc,
                   !.pc = IF RetriesLeft(retry.attempt, retry.attempts)
                          THEN "sleep" ELSE "raise"]
    /\ UNCHANGED retryUnchanged

\* `time.sleep(delay)' returns and the loop takes its next value
RetrySleep ==
    /\ retry.pc = "sleep"
    /\ retry' = [retry EXCEPT
                   !.sleeps = Append(@, retry.attempt),
                   !.attempt = @ + 1,
                   !.pc = "loop"]
    /\ UNCHANGED retryUnchanged

\* `raise last_exc'; raising None is a TypeError
RetryRaise ==
    /\ retry.pc = "raise"
    /\ retry' = [retry EXCEPT
                   !.outcome = IF retry.last_exc = 0
                               THEN [kind |-> "type_error", value |-> 0]
                               ELSE [kind |-> "raised", value |-> retry.last_exc],
                   !.pc = "done"]
    /\ UNCHANGED retryUnchanged

\* the call is made with some attempts argument; last_exc = None, the loop begins
InitRetry ==
    /\ CodecIdle
    /\ LinkIdle
    /\ serial_in = << >>
    /\ stream = << >>
    /\ SendIdle
    /\ other_drones = NoDrones
    /\ now = 0
    /\ expiry_timeout = DefaultExpiryTimeout
    /\ sweep = IdleSweep
    /\ other_drones_lock = "free"
    /\ ev = Event("init", None, 0, NoDrones, NoDrones)
    /\ removed = {}
    /\ running = TRUE
    /\ waiter = IdleWaiter
    /\ unlocked_access = {}
    /\ nav = IdleNav
    /\ snapshot = NoDrones
    /\ alias = {}
    /\ previous_velocity = ZeroVelocity
    /\ law = NoLaw
    /\ timeout_arg = << >>
    /\ link_running = TRUE
    /\ telemetry_timer = Armed(TelemetryPeriod)
    /\ cleanup_timer = Armed(CleanupPeriod)
    /\ stopping = "no"
    /\ broadcast = NoBroadcast
    /\ reader = [pc |-> "test", raised |-> 0, left |-> 0, lost |-> FALSE]
    /\ StartedOnce
    /\ lockers = [t \in LockThreads |-> IdleLocker]
    /\ link_network_id = DefaultNetworkId
    /\ \E k \in 0..MaxAttempts :
          retry = [NoRetry EXCEPT !.pc = "loop", !.attempts = k, !.attempt = 1]

NextRetry ==
    \/ RetryLoop
    \/ \E result \in ProxyResults : RetryReturn(result)
    \/ \E exc \in ProxyErrors : RetryExcept(exc)
    \/ RetrySleep
    \/ RetryRaise

SpecRetry == InitRetry /\ [][NextRetry]_vars

\* every call of the proxy returns or raises, and every sleep ends
SpecRetryFair == SpecRetry /\ WF_vars(NextRetry)

\* the proxy was called n times and only the last call may have succeeded
FailedBefore(n) == \A i \in 1..(n - 1) : ~retry.log[i].ok

\* what holds at every point of a call with attempts >= 1
RetrySafe ==
    LET k == retry.attempts
        calls == Len(retry.log)
    IN  /\ calls <= k
        /\ FailedBefore(calls)
        /\ \A i \in 1..Len(retry.sleeps) :
              /\ retry.sleeps[i] = i
              /\ i < k
              /\ i <= calls /\ ~retry.log[i].ok
        /\ Len(retry.sleeps) <= calls
        /\ retry.pc = "done" =>
              /\ retry.outcome.kind \in {"returned", "raised"}
              /\ Len(retry.sleeps) = calls - 1
              /\ retry.outcome.kind = "returned" =>
                    /\ retry.log[calls].ok
                    /\ retry.outcome.value = retry.log[calls].value
              /\ retry.outcome.kind = "raised" =>
                    /\ calls = k
                    /\ ~retry.log[k].ok
                    /\ retry.outcome.value = retry.log[k].value

\* C40: a call with attempts = k >= 1 calls the proxy at most k times, stops
\* at the first call that succeeds and returns its result, sleeps only after
\* a failed attempt that another attempt follows, raises the k-th failure
\* after k failed calls, and always comes to an end.  (With attempts = 0 the
\* proxy is never called and `raise None' ends the call.)
C40_RetriesBounded ==
    /\ [](retry.attempts >= 1 => RetrySafe)
    /\ [](Len(retry.log) <= retry.attempts)
    /\ <>(retry.pc = "done")

\* three attempts: two failures, each followed by a sleep, then a third
\* failure that is raised with no sleep after it
C40_Witness ==
    /\ retry.pc = "done"
    /\ retry.attempts = 3
    /\ retry.outcome = [kind |-> "raised", value |-> 2]
    /\ retry.log[1].value = 1
    /\ retry.sleeps = << 1, 2 >>

(***************************************************************************)
(* link.py: a preamble split between two reads                             *)
(***************************************************************************)
\* bytes with no preamble in them, and none when the first preamble byte
\* follows them: shorter than a header, a header long, longer
SplitGarbage ==
    {<< >>, << 1 >>, << 85 >>, << 170, 1 >>, << 1, 2, 85 >>, << 170, 85, 1, 2 >>,
     << 170, 1, 85, 2, 3, 85 >>}

\* the frames that follow; the Config payload holds the two preamble bytes
SplitFrames == GoodFrames \ {BulkFrame(<< >>).data}

\* nothing was read yet
Unread == Len(serial_in) = Len(stream[1]) + Len(stream[2])

\* the first read ends with the first preamble byte of the frame
SplitFirstRead ==
    /\ Unread
    /\ ReadChunk(Len(stream[1]) + 1, generate_ack_packet(1, 0, 0), TRUE)

\* the next read starts with the second preamble byte
SplitLaterRead ==
    /\ ~Unread
    /\ \E n \in Chunks(Len(serial_in)) :
          ReadChunk(n, generate_ack_packet(1, 0, 0), TRUE)

InitSplit ==
    /\ CodecIdle
    /\ LinkIdle
    /\ SendIdle
    /\ DroneIdle
    /\ \E g \in SplitGarbage, frame \in SplitFrames :
          /\ stream = << g, frame >>
          /\ serial_in = g \o frame

NextSplit ==
    \/ SplitFirstRead
    \/ SplitLaterRead

SpecSplit == InitSplit /\ [][NextSplit]_vars

\* the first read was made and no other
FirstReadDone == Len(serial_in) = Len(stream[2]) - 1

\* what the first read held: the garbage and the first preamble byte
FirstRead == stream[1] \o << preamble_bytes[1] >>

\* the frame was delivered once all of it was read
SplitFrameDelivered ==
    /\ stats.packets_corrupted = 0
    /\ serial_in = << >> => delivered = << Decoded(stream[2]) >>

====
